---- MODULE Spec2Model ----
(***************************************************************************)
(* Model of the task-execution loop of the CUA MCP server:                 *)
(*   executeTask / executeTaskInBackground  (lib/agent/execute.ts)         *)
(*   updateProgress / finalizeTask          (lib/agent/progress.ts)        *)
(*   ACTION_HANDLERS / OBSERVATION_ACTIONS  (lib/agent/actions/index.ts)   *)
(* One task is modelled: the main loop, the heartbeat timer that runs      *)
(* while the planner call is pending, the heartbeat writes still in flight *)
(* and the blob store key progress/<taskId>.                               *)
(***************************************************************************)
EXTENDS Integers, Sequences, FiniteSets, TLC

\* ------------------------------------------------------------------ bounds
\* largest max_steps a task of Spec and FairSpec is started with
MaxStepsBound == 1
\* largest number of content blocks in one planner response
MaxBlocks == 2
\* number of heartbeat timer firings modelled over the whole task
MaxHeartbeats == 1
\* largest coordinate and display size a function is called with on its own
MaxCoord == 3

\* --------------------------------------------------------------- constants
\* timeout_seconds the task is started with
TimeoutSeconds == 1
\* updateProgress(taskId, progress, retries = 2)
DefaultRetries == 2

\* RETRY_BACKOFF_BASE_MS of lib/agent/config.ts, which updateProgress names
\* with its waits: "100ms, 200ms"
RETRY_BACKOFF_BASE_MS == 100
\* if (progress.steps_summary.length > 5) progress.steps_summary.shift()
SummaryLimit == 5

\* the Constraints table: default and hard maximum of max_steps
DEFAULT_MAX_STEPS == 100
MAX_STEPS_LIMIT == 100
\* the Constraints table: default and hard maximum of timeout_seconds
DEFAULT_TIMEOUT_SECONDS == 750
MAX_TIMEOUT_SECONDS == 750

\* the crop of zoom: 400x300 around the coordinate
ZOOM_REGION_WIDTH == 400
ZOOM_REGION_HEIGHT == 300

\* ------------------------------------------------------------ the registry
ACTION_HANDLERS ==
  {"screenshot", "zoom", "mouse_move", "left_click", "right_click",
   "double_click", "triple_click", "middle_click", "left_click_drag",
   "left_mouse_down", "left_mouse_up", "type", "key", "hold_key", "scroll",
   "wait"}

OBSERVATION_ACTIONS == {"screenshot", "zoom"}

\* the exempt set without wait
NoAutoReleaseWithoutWait == {"screenshot", "zoom", "hold_key"}

NO_AUTO_RELEASE_ACTIONS == {"screenshot", "zoom", "hold_key", "wait"}

\* ------------------------------------------------------- planner responses
\* Text is a sequence of tokens; the two markers are tokens of their own.
PlainText == <<"I", " ", "see">>
CompleteText == <<"TASK_COMPLETE:", " ", "Opened app">>
FailedText == <<"TASK_FAILED:", " ", "no window">>
Texts == {PlainText, CompleteText, FailedText}

\* keys the planner asks to hold; the empty key is a hold_key without key
HoldKeys == {"Shift"}

\* input.key that is not a string: block.input is cast to ActionInput without
\* a check, so a JSON number arrives as it is. The number 5 is written "#5".
NumberKeys == {"#5"}

\* typeof k === "string"
IsString(k) == k \notin NumberKeys

\* the screen of the sandbox: screenSize.width x screenSize.height
DisplayWidth == 10
DisplayHeight == 10

\* input.coordinate of a click: absent, inside the screen, outside of it
Coordinates == {<<>>, <<5, 5>>, <<50, 50>>}

\* action names the planner issues; release_key is documented in the README
\* but has no entry in ACTION_HANDLERS
PlannerActions ==
  {"screenshot", "zoom", "left_click", "hold_key", "wait", "release_key"}

\* the actions whose handler starts with validateAndExtractCoords
CoordinateActions == {"zoom", "left_click"}

TextBlocks ==
  [type : {"text"}, text : Texts, action : {""}, key : {""}, coordinate : {<<>>}]
ToolBlocks ==
  [type : {"tool_use"}, text : {<<>>},
   action : PlannerActions \ ({"hold_key"} \cup CoordinateActions),
   key : {""}, coordinate : {<<>>}]
    \cup [type : {"tool_use"}, text : {<<>>}, action : {"hold_key"},
          key : HoldKeys \cup NumberKeys \cup {""}, coordinate : {<<>>}]
    \cup [type : {"tool_use"}, text : {<<>>}, action : CoordinateActions,
          key : {""}, coordinate : Coordinates]
Blocks == TextBlocks \cup ToolBlocks

\* response.stop_reason
StopReasons == {"tool_use", "end_turn", "max_tokens"}

\* messages of the faults the planner call throws
FaultMsgs == {"Connection error."}

\* messages of the faults a handler throws (sendCommand awaits response.text()
\* outside its try block)
HandlerFaultMsgs == {"body stream interrupted"}

\* message of the TypeError of keyToHold.toLowerCase() on a key without that
\* method
NotAFunctionMsg == "keyToHold.toLowerCase is not a function"

\* result.error of a remote call that reports success = false
RemoteError == <<"Computer Server error (", "500", "): ", "down">>

\* ------------------------------------------------------------- text helpers
\* String.prototype.includes for a marker token
Includes(text, tok) == \E i \in DOMAIN text : text[i] = tok

\* text.split(tok)[1]: what stands between the first and the second tok
SplitSecond(text, tok) ==
  LET first == CHOOSE i \in DOMAIN text : text[i] = tok /\ \A j \in 1..(i - 1) : text[j] # tok
      rest == SubSeq(text, first + 1, Len(text))
      stop == IF \E i \in DOMAIN rest : rest[i] = tok
              THEN (CHOOSE i \in DOMAIN rest : rest[i] = tok /\ \A j \in 1..(i - 1) : rest[j] # tok) - 1
              ELSE Len(rest)
  IN SubSeq(rest, 1, stop)

\* String.prototype.trim on a token sequence
RECURSIVE Trim(_)
Trim(text) ==
  IF text = <<>> THEN <<>>
  ELSE IF Head(text) = " " THEN Trim(Tail(text))
  ELSE IF text[Len(text)] = " " THEN Trim(SubSeq(text, 1, Len(text) - 1))
  ELSE text

\* String.prototype.toLowerCase on the key names of the model
ToLowerCase(k) == IF k = "Shift" THEN "shift" ELSE IF k = "Ctrl" THEN "ctrl" ELSE k

\* ------------------------------------------------------- message templates
ReachedLimitMsg(max, ms) ==
  <<"Reached ", ToString(max), " action limit (", ToString(ms), " actions taken)">>
SafetyLimitMsg(ti) == <<"Safety limit reached (", ToString(ti), " total iterations)">>
TimeoutMsg(ts) == <<"Timeout after ", ToString(ts), "s">>
TaskFailedMsg == <<"Task failed">>
TimedOutSummary == <<"Task timed out">>
MaxStepsSummary == <<"Max steps exceeded without completing task">>
DefaultSummary == <<"Task completed">>
AgentErrorSummary(msg) == <<"Agent error: ", msg>>
BackgroundFailedSummary(msg) == <<"Background execution failed: ", msg>>
\* an unknown-action error that does not name the action
UnknownActionMsgBare(name) == <<"Unknown action">>
UnknownActionMsg(name) == <<"Unknown action: ", name>>
RequiresCoordinateMsg == <<"Action requires coordinate">>
HoldKeyRequiresKeyMsg == <<"hold_key requires key">>
OutOfBoundsMsg(x, y, width, height) ==
  <<"Coordinates (", ToString(x), ", ", ToString(y), ") are outside display bounds (",
    ToString(width), "x", ToString(height), ")">>

\* ---------------------------------------------------------- rolling summary
\* An entry of steps_summary is modelled by the number of the meaningful
\* action that summarizeAction described when the entry was pushed.
\* a rolling summary that drops the newest entry when it is full
PushSummaryKeepOldest(list, summary) ==
  IF Len(list) >= SummaryLimit THEN list ELSE Append(list, summary)

\* progress.steps_summary.push(summary); if (length > 5) shift()
PushSummary(list, summary) ==
  LET pushed == Append(list, summary)
  IN IF Len(pushed) > SummaryLimit THEN Tail(pushed) ELSE pushed

\* messages of the faults a put of tasks/<taskId> throws
BlobFaultMsgs == {"Blob store unavailable"}

\* ------------------------------------------------------- run_task arguments
\* A JavaScript number is [kind : finite, v], NaN, or an infinity.
Finite(n) == [kind |-> "finite", v |-> n]
NaN == [kind |-> "NaN", v |-> 0]
Infinity == [kind |-> "Infinity", v |-> 1]
NegInfinity == [kind |-> "Infinity", v |-> -1]

\* the numbers a caller sends: around zero and around the two maxima
RawNumbers == {-1, 0, 1, 50, 100, 101, 750, 751}

\* args.max_steps and args.timeout_seconds as they arrive: absent, null, a
\* boolean (b), a string (s), a number (n); the fields a type does not use are
\* left at FALSE, "" and 0
RawArgs ==
  [t : {"undefined", "null"}, b : {FALSE}, s : {""}, n : {Finite(0)}]
    \cup [t : {"boolean"}, b : BOOLEAN, s : {""}, n : {Finite(0)}]
    \cup [t : {"string"}, b : {FALSE}, s : {"", "abc", "7", "Infinity", "-Infinity"},
          n : {Finite(0)}]
    \cup [t : {"number"}, b : {FALSE}, s : {""},
          n : {Finite(n) : n \in RawNumbers} \cup {Infinity}]

\* Number(value)
Number(raw) ==
  CASE raw.t = "undefined" -> NaN
    [] raw.t = "null" -> Finite(0)
    [] raw.t = "boolean" -> IF raw.b THEN Finite(1) ELSE Finite(0)
    [] raw.t = "string" ->
         (CASE raw.s = "" -> Finite(0)
            [] raw.s = "7" -> Finite(7)
            [] raw.s = "Infinity" -> Infinity
            [] raw.s = "-Infinity" -> NegInfinity
            [] OTHER -> NaN)
    [] raw.t = "number" -> raw.n

\* Number.isFinite(n)
IsFinite(n) == n.kind = "finite"

\* Math.min of two finite numbers
Min(a, b) == IF a < b THEN a ELSE b

\* a budget that falls back to the default but is not capped
ClampBudgetNoCap(raw, default, limit) ==
  LET n == Number(raw)
  IN IF IsFinite(n) /\ n.v > 0 THEN n.v ELSE default

\* Math.min(Number.isFinite(raw) && raw > 0 ? raw : DEFAULT, LIMIT)
ClampBudget(raw, default, limit) ==
  LET n == Number(raw)
  IN Min(IF IsFinite(n) /\ n.v > 0 THEN n.v ELSE default, limit)

\* ------------------------------------------------------------------ state
VARIABLES
  maxSteps,         \* executeTask parameter maxSteps
  pc,               \* where the main flow stands
  meaningfulSteps,  \* let meaningfulSteps
  totalIterations,  \* let totalIterations
  plannerCalls,     \* number of anthropic.beta.messages.create calls issued
  heldKeys,         \* const heldKeys = new Set<string>()
  keyUpCalls,       \* the computer.keyUp(k) calls of the latest dispatch of this response
  stepsLen,         \* steps.length
  progress,         \* the canonical TaskProgress object of executeTask
  blob,             \* what is stored under progress/<taskId>.json (<<>>: nothing)
  taskBlob,         \* what is stored under tasks/<taskId>.json (<<>>: nothing)
  pending,          \* number of blocks of response.content the for loop has not reached yet
  block,            \* const block of the for loop: the block it reached last (<<>>: none yet)
  stopReason,       \* response.stop_reason
  toolResults,      \* toolResults.length
  dispatched,       \* what the latest dispatch of this response pushed and called (<<>>: none)
  firstText,        \* response.content.find(b => b.type === "text") as far as the loop got
  hb,               \* snapshots of the heartbeat updateProgress calls in flight
  hbFired,          \* heartbeat timer firings so far
  elapsed,          \* const elapsed = Date.now() - startTime of this iteration
  attempt,          \* attempt counter of the updateProgress the main flow awaits
  result,           \* the TaskResult executeTask returns (<<>> until built)
  exitPath,         \* which return statement of executeTask was taken
  caught,           \* err of the catch block of executeTaskInBackground (<<>>: not entered)
  rejected,         \* the promise of executeTaskInBackground rejected
  response,         \* what run_task returned to its caller (<<>>: nothing yet)
  args,             \* args.max_steps and args.timeout_seconds of run_task (<<>>: not kept)
  timeoutSeconds,   \* const timeoutSeconds of run_task
  callArgs,         \* arguments of a function that is called on its own (<<>>: none)
  callResult,       \* what that call returned (<<>>: nothing yet)
  remoteCalls,      \* the calls on the computer client that function has made,
                    \* each with its outcome, in order
  attempted         \* history: directives of registered non-observation actions
                    \* dispatched so far (<<>>: this behaviour keeps no history)

vars == <<maxSteps, pc, meaningfulSteps, totalIterations, plannerCalls, heldKeys,
          keyUpCalls, stepsLen, progress, blob, taskBlob, pending, block, stopReason,
          toolResults, dispatched, firstText, hb, hbFired, elapsed, attempt, result,
          exitPath, caught, rejected, response, args, timeoutSeconds,
          callArgs, callResult, remoteCalls, attempted>>

HeldKeyNames == {ToLowerCase(k) : k \in HoldKeys}

\* the record executeTask and initializeProgress start from
InitialProgress ==
  [status |-> "running", current_step |-> 0, steps_summary |-> <<>>,
   final_result |-> <<>>]

\* the object run_task returns once the background execution is scheduled
RunningResponse(url) == [task_id |-> "task", status |-> "running", progress_url |-> url]

\* executeTask at the top of its loop, called by run_task after an initial
\* write that succeeded
Init ==
  /\ maxSteps \in 1..MaxStepsBound
  /\ response = <<RunningResponse(TRUE)>>
  /\ args = <<>>
  /\ timeoutSeconds = TimeoutSeconds
  /\ blob = <<InitialProgress>>
  /\ pc = "loop"
  /\ meaningfulSteps = 0
  /\ attempted = <<>>
  /\ callArgs = <<>>
  /\ callResult = <<>>
  /\ remoteCalls = <<>>
  /\ totalIterations = 0
  /\ plannerCalls = 0
  /\ heldKeys = {}
  /\ keyUpCalls = <<>>
  /\ stepsLen = 0
  /\ progress = InitialProgress
  /\ taskBlob = <<>>
  /\ pending = 0
  /\ block = <<>>
  /\ stopReason = "none"
  /\ toolResults = 0
  /\ dispatched = <<>>
  /\ firstText = <<>>
  /\ hb = {}
  /\ hbFired = 0
  /\ elapsed = 0
  /\ attempt = 0
  /\ result = <<>>
  /\ exitPath = "none"
  /\ caught = <<>>
  /\ rejected = FALSE

\* ------------------------------------------------------------ finalization
\* a finalizeTask that takes total_steps from the record instead of the result
FinalizeRecordStaleSteps(p, status, success, summary, steps, error) ==
  [p EXCEPT !.status = status,
            !.final_result = <<[success |-> success, summary |-> summary,
                                total_steps |-> p.current_step, error |-> error]>>]

\* finalizeTask: the mutation of the progress object
FinalizeRecord(p, status, success, summary, steps, error) ==
  [p EXCEPT !.status = status,
            !.current_step = steps,
            !.final_result = <<[success |-> success, summary |-> summary,
                                total_steps |-> steps, error |-> error]>>]

\* the object literal of a return statement of executeTask
TaskResultOf(success, summary, stepsTaken, error) ==
  [success |-> success, summary |-> summary, steps_taken |-> stepsTaken,
   steps |-> stepsLen, error |-> error]

\* await finalizeTask(...); return {...}: the mutation, then the write is awaited
Finish(path, status, success, summary, steps, error) ==
  /\ progress' = FinalizeRecord(progress, status, success, summary, steps, error)
  /\ result' = <<TaskResultOf(success, summary, steps, error)>>
  /\ exitPath' = path
  /\ attempt' = 0
  /\ pc' = "finalWrite"
  /\ caught' = caught

\* ---------------------------------------------------------------- the loop
\* the loop condition with the iteration cap tested by <=
LoopCondCapOffByOne(ms, ti, max) == ms < max /\ ti <= max * 3

\* the loop condition with the step budget tested by <=
LoopCondBudgetOffByOne(ms, ti, max) == ms <= max /\ ti < max * 3

\* the loop condition with the step budget tested one action late
LoopCondOneMore(ms, ti, max) == ms < max + 1 /\ ti < max * 3

\* while (meaningfulSteps < maxSteps && totalIterations < maxTotalIterations)
LoopCond(ms, ti, max) == ms < max /\ ti < max * 3

\* a timeout check that lets one more millisecond pass
TimedOutLate(elapsedMs, ts) == elapsedMs > ts * 1000 + 1

\* elapsed > timeoutSeconds * 1000, elapsed in milliseconds
TimedOut(elapsedMs, ts) == elapsedMs > ts * 1000

\* the readings of Date.now() - startTime at the top of the loop: the budget
\* exactly, and one millisecond beyond it
ElapsedSamples == {TimeoutSeconds * 1000, TimeoutSeconds * 1000 + 1}

\* the errorMsg with the budget tested by >
ExhaustedMsgStrict(ms, ti, max) ==
  IF ms > max THEN ReachedLimitMsg(max, ms) ELSE SafetyLimitMsg(ti)

\* the errorMsg of the code after the loop
ExhaustedMsg(ms, ti, max) ==
  IF ms >= max THEN ReachedLimitMsg(max, ms) ELSE SafetyLimitMsg(ti)

\* what run_task settles and executeTaskInBackground never touches
runTaskVars == <<maxSteps, response, args, timeoutSeconds, callArgs, callResult,
                 remoteCalls>>
loopVars == <<meaningfulSteps, totalIterations, plannerCalls>>
keyVars == <<heldKeys, keyUpCalls>>
respVars == <<pending, block, stopReason, toolResults, dispatched, firstText>>
hbVars == <<hb, hbFired>>
storeVars == <<blob, taskBlob>>
endVars == <<result, exitPath, caught>>

\* the loop condition is false: "Max steps exceeded"
LoopExit ==
  /\ pc = "loop"
  /\ ~LoopCond(meaningfulSteps, totalIterations, maxSteps)
  /\ Finish("exhausted", "failed", FALSE, MaxStepsSummary, meaningfulSteps,
            ExhaustedMsg(meaningfulSteps, totalIterations, maxSteps))
  /\ UNCHANGED <<runTaskVars, attempted, loopVars, keyVars, stepsLen, respVars, hbVars, storeVars,
                 elapsed, rejected>>

\* the loop is entered and the timeout check fires
TimeoutExit ==
  /\ pc = "loop"
  /\ LoopCond(meaningfulSteps, totalIterations, maxSteps)
  /\ \E e \in ElapsedSamples : TimedOut(e, TimeoutSeconds) /\ elapsed' = e
  /\ totalIterations' = totalIterations + 1
  /\ Finish("timeout", "timeout", FALSE, TimedOutSummary, stepsLen,
            TimeoutMsg(TimeoutSeconds))
  /\ UNCHANGED <<runTaskVars, attempted, meaningfulSteps, plannerCalls, keyVars, stepsLen, respVars,
                 hbVars, storeVars, rejected>>

\* the loop is entered, the heartbeat is started and the planner is called
CallPlanner ==
  /\ pc = "loop"
  /\ LoopCond(meaningfulSteps, totalIterations, maxSteps)
  /\ \E e \in ElapsedSamples : ~TimedOut(e, TimeoutSeconds) /\ elapsed' = e
  /\ totalIterations' = totalIterations + 1
  /\ plannerCalls' = plannerCalls + 1
  /\ pc' = "planner"
  /\ UNCHANGED <<runTaskVars, attempted, meaningfulSteps, keyVars, stepsLen, progress, respVars,
                 hbVars, storeVars, attempt, endVars, rejected>>

\* anthropic.beta.messages.create resolves; the heartbeat timer is cleared.
\* The response has up to MaxBlocks content blocks; a response that stops for
\* tool use carries a directive.
PlannerReturns ==
  /\ pc = "planner"
  /\ \E n \in 0..MaxBlocks :
       \E sr \in StopReasons :
         /\ sr = "tool_use" => n >= 1
         /\ pending' = n
         /\ stopReason' = sr
  /\ block' = <<>>
  /\ firstText' = <<>>
  /\ toolResults' = 0
  /\ dispatched' = <<>>
  /\ pc' = "blocks"
  /\ UNCHANGED <<runTaskVars, attempted, loopVars, keyVars, stepsLen, progress, hbVars, storeVars,
                 elapsed, attempt, endVars, rejected>>

\* a catch that reports every fault as "Task failed"
ErrorMsgGeneric(msg) == TaskFailedMsg

\* a catch that keeps no message
ErrorMsgDropped(msg) == <<>>

\* err instanceof Error ? err.message : String(err), of both catch blocks
ErrorMsgOf(msg) == <<msg>>

\* anthropic.beta.messages.create rejects: the outer catch
PlannerThrows ==
  /\ pc = "planner"
  /\ \E msg \in FaultMsgs :
       Finish("fault", "failed", FALSE, AgentErrorSummary(msg), meaningfulSteps,
              ErrorMsgOf(msg))
  /\ UNCHANGED <<runTaskVars, attempted, loopVars, keyVars, stepsLen, respVars, hbVars, storeVars,
                 elapsed, rejected>>

\* the blocks that can stand where the for loop is: directives only in a
\* response that stopped for tool use, and at least one of them in it
NextBlocks ==
  IF stopReason = "tool_use"
  THEN IF pending = 1 /\ toolResults = 0 THEN ToolBlocks ELSE Blocks
  ELSE TextBlocks

\* a marker test that knows the completion marker only
MarkerOfCompleteOnly(text) ==
  IF Includes(text, "TASK_COMPLETE:") THEN "complete" ELSE "none"

\* which marker a text block carries; TASK_COMPLETE: is tested first
MarkerOf(text) ==
  IF Includes(text, "TASK_COMPLETE:") THEN "complete"
  ELSE IF Includes(text, "TASK_FAILED:") THEN "failed"
  ELSE "none"

\* a text block is reached by the for loop
ProcessText ==
  /\ pc = "blocks"
  /\ pending > 0
  /\ \E b \in NextBlocks \cap TextBlocks :
       LET text == b.text
       IN /\ block' = <<b>>
          /\ CASE MarkerOf(text) = "complete" ->
                    /\ Finish("complete", "completed", TRUE,
                              Trim(SplitSecond(text, "TASK_COMPLETE:")), meaningfulSteps,
                              <<>>)
                    /\ UNCHANGED firstText
               [] MarkerOf(text) = "failed" ->
                    /\ Finish("failed", "failed", FALSE,
                              Trim(SplitSecond(text, "TASK_FAILED:")), meaningfulSteps,
                              TaskFailedMsg)
                    /\ UNCHANGED firstText
               [] OTHER ->
                    /\ firstText' = IF firstText = <<>> THEN <<text>> ELSE firstText
                    /\ UNCHANGED <<pc, progress, attempt, endVars>>
  /\ pending' = pending - 1
  /\ UNCHANGED <<runTaskVars, attempted, loopVars, keyVars, stepsLen, stopReason, toolResults,
                 dispatched, hbVars, storeVars, elapsed, rejected>>

\* ----------------------------------------------------------------- dispatch
\* a bounds check that takes the width and the height for valid coordinates
ValidateCoordinatesInclusive(x, y, width, height) ==
  IF x < 0 \/ x > width \/ y < 0 \/ y > height
  THEN [valid |-> FALSE, error |-> OutOfBoundsMsg(x, y, width, height)]
  ELSE [valid |-> TRUE, error |-> <<>>]

\* a bounds check that accepts every coordinate
ValidateCoordinatesLax(x, y, width, height) == [valid |-> TRUE, error |-> <<>>]

\* validateCoordinates(x, y, width, height)
ValidateCoordinates(x, y, width, height) ==
  IF x < 0 \/ x >= width \/ y < 0 \/ y >= height
  THEN [valid |-> FALSE, error |-> OutOfBoundsMsg(x, y, width, height)]
  ELSE [valid |-> TRUE, error |-> <<>>]

\* validateAndExtractCoords(input, displayWidth, displayHeight)
ValidateAndExtractCoords(input, width, height) ==
  IF input.coordinate = <<>>
  THEN [valid |-> FALSE, error |-> RequiresCoordinateMsg]
  ELSE ValidateCoordinates(input.coordinate[1], input.coordinate[2], width, height)

\* what a registered handler can do with a directive of the model: return
\* success, return a structured failure, or throw (sendCommand awaits
\* response.text() outside its try). handleWait makes no remote call;
\* handleHoldKey ignores the result of keyDown; handleLeftClick makes its
\* remote call only with a valid coordinate.
HandlerOutcomes(b) ==
  CASE b.action = "wait" -> {"ok"}
    [] b.action = "hold_key" -> IF b.key = "" THEN {"fail"} ELSE {"ok", "throw"}
    [] b.action \in CoordinateActions ->
         IF ValidateAndExtractCoords(b, DisplayWidth, DisplayHeight).valid
         THEN {"ok", "fail", "throw"}
         ELSE {"fail"}
    [] OTHER -> {"ok", "fail", "throw"}

\* result.error of a handler that returns success = false
ResultError(b) ==
  CASE b.action = "hold_key" -> HoldKeyRequiresKeyMsg
    [] b.action \in CoordinateActions ->
         LET coords == ValidateAndExtractCoords(b, DisplayWidth, DisplayHeight)
         IN IF coords.valid THEN RemoteError ELSE coords.error
    [] OTHER -> RemoteError

\* the step record and the tool result a dispatch pushes, and whether the
\* handler was invoked
DispatchRecord(action, success, error, isError, handled) ==
  <<[step |-> stepsLen + 1, action |-> action, success |-> success, error |-> error,
     is_error |-> isError, handled |-> handled]>>

\* const handler = ACTION_HANDLERS[input.action]; if (!handler) {...; continue}
DispatchUnknown ==
  /\ pc = "blocks"
  /\ pending > 0
  /\ \E b \in NextBlocks \cap ToolBlocks :
       /\ b.action \notin ACTION_HANDLERS
       /\ block' = <<b>>
       /\ dispatched' = DispatchRecord(b.action, FALSE, UnknownActionMsg(b.action),
                                       TRUE, FALSE)
  /\ stepsLen' = stepsLen + 1
  /\ toolResults' = toolResults + 1
  /\ pending' = pending - 1
  /\ keyUpCalls' = <<>>
  /\ UNCHANGED <<runTaskVars, attempted, pc, loopVars, heldKeys, progress, stopReason, firstText,
                 hbVars, storeVars, elapsed, attempt, endVars, rejected>>

\* heldKeys after "Track held keys for auto-release"
HeldAfterHold(held, b, success) ==
  IF b.action = "hold_key" /\ success /\ b.key # ""
  THEN held \cup {ToLowerCase(b.key)}
  ELSE held

\* keyToHold.toLowerCase() throws: the handler held a key that is not a string
ThrowsAfterPush(b, outcome) ==
  b.action = "hold_key" /\ outcome = "ok" /\ b.key # "" /\ ~IsString(b.key)

\* for (const key of heldKeys): the keys of the set, each once
RECURSIVE SetToSeq(_)
SetToSeq(S) ==
  IF S = {} THEN <<>>
  ELSE LET k == CHOOSE x \in S : TRUE IN <<k>> \o SetToSeq(S \ {k})

\* what a computer.keyUp(key) call of the release loop does: it returns
\* success, returns success = false, or throws
KeyUpOutcomes == {"ok", "fail", "throw"}

\* a release loop that a throwing key-up breaks off
KeyUpCallsUntilThrow(keys, outs) ==
  LET thrown == {i \in 1..Len(keys) : outs[i] = "throw"}
      last == IF thrown = {} THEN Len(keys)
              ELSE CHOOSE i \in thrown : \A j \in thrown : i <= j
  IN [i \in 1..last |-> [key |-> keys[i], outcome |-> outs[i]]]

\* for (const key of heldKeys) { try { await computer.keyUp(key) } catch {} }:
\* the calls made, with what each did
KeyUpCalls(keys, outs) ==
  [i \in 1..Len(keys) |-> [key |-> keys[i], outcome |-> outs[i]]]

\* the condition of "Auto-release held keys after meaningful actions"
AutoRelease(action, held) == action \notin NO_AUTO_RELEASE_ACTIONS /\ held # {}

\* the condition of "Update progress for meaningful actions"
CountsAsStep(action) == action \notin OBSERVATION_ACTIONS

\* the history of dispatched meaningful directives after one more dispatch
Attempt(history, action) ==
  IF history # <<>> /\ CountsAsStep(action) THEN <<history[1] + 1>> ELSE history

\* an updateProgress of the step that is started and not awaited
StepWriteNotAwaited == "blocks"

\* await updateProgress(taskId, progress): where the loop stands after a
\* meaningful action, until the call has returned
StepWrite == "stepWrite"

\* the handler returned a result (success true or false): the try body
DispatchReturns ==
  /\ pc = "blocks"
  /\ pending > 0
  /\ \E b \in NextBlocks \cap ToolBlocks :
       /\ b.action \in ACTION_HANDLERS
       /\ block' = <<b>>
       /\ attempted' = Attempt(attempted, b.action)
       /\ \E outcome \in HandlerOutcomes(b) \ {"throw"} :
            LET held == HeldAfterHold(heldKeys, b, outcome = "ok")
            IN /\ ~ThrowsAfterPush(b, outcome)
               /\ dispatched' =
                    DispatchRecord(b.action, outcome = "ok",
                                   IF outcome = "ok" THEN <<>> ELSE ResultError(b),
                                   FALSE, TRUE)
               /\ IF AutoRelease(b.action, held)
                  THEN /\ \E outs \in [1..Cardinality(held) -> KeyUpOutcomes] :
                            keyUpCalls' = KeyUpCalls(SetToSeq(held), outs)
                       /\ heldKeys' = {}
                  ELSE /\ keyUpCalls' = <<>>
                       /\ heldKeys' = held
               /\ IF CountsAsStep(b.action)
                  THEN /\ meaningfulSteps' = meaningfulSteps + 1
                       /\ progress' =
                            [progress EXCEPT
                               !.current_step = meaningfulSteps + 1,
                               !.steps_summary =
                                 PushSummary(@, meaningfulSteps + 1)]
                       /\ attempt' = 0
                       /\ pc' = StepWrite
                  ELSE UNCHANGED <<meaningfulSteps, progress, attempt, pc>>
  /\ stepsLen' = stepsLen + 1
  /\ toolResults' = toolResults + 1
  /\ pending' = pending - 1
  /\ UNCHANGED <<runTaskVars, totalIterations, plannerCalls, stopReason, firstText,
                 hbVars, storeVars, elapsed, endVars, rejected>>

\* the handler threw: the inner catch
DispatchThrows ==
  /\ pc = "blocks"
  /\ pending > 0
  /\ \E b \in NextBlocks \cap ToolBlocks :
       /\ b.action \in ACTION_HANDLERS
       /\ "throw" \in HandlerOutcomes(b)
       /\ block' = <<b>>
       /\ attempted' = Attempt(attempted, b.action)
       /\ \E msg \in HandlerFaultMsgs :
            dispatched' = DispatchRecord(b.action, FALSE, ErrorMsgOf(msg), TRUE, TRUE)
  /\ stepsLen' = stepsLen + 1
  /\ toolResults' = toolResults + 1
  /\ pending' = pending - 1
  /\ keyUpCalls' = <<>>
  /\ UNCHANGED <<runTaskVars, pc, loopVars, heldKeys, progress, stopReason, firstText,
                 hbVars, storeVars, elapsed, attempt, endVars, rejected>>

\* the handler returned and the try body threw after steps.push(stepRecord):
\* the inner catch marks the same record failed and pushes it again
DispatchThrowsAfterPush ==
  /\ pc = "blocks"
  /\ pending > 0
  /\ \E b \in NextBlocks \cap ToolBlocks :
       /\ b.action \in ACTION_HANDLERS
       /\ \E outcome \in HandlerOutcomes(b) \ {"throw"} : ThrowsAfterPush(b, outcome)
       /\ block' = <<b>>
       /\ attempted' = Attempt(attempted, b.action)
       /\ dispatched' = DispatchRecord(b.action, FALSE, <<NotAFunctionMsg>>, TRUE, TRUE)
  /\ stepsLen' = stepsLen + 2
  /\ toolResults' = toolResults + 1
  /\ pending' = pending - 1
  /\ keyUpCalls' = <<>>
  /\ UNCHANGED <<runTaskVars, pc, loopVars, heldKeys, progress, stopReason, firstText,
                 hbVars, storeVars, elapsed, attempt, endVars, rejected>>

\* a test that never takes a silent response for the end of the task
ImplicitStopNever(sr, results) == FALSE

\* response.stop_reason === "end_turn" && toolResults.length === 0
ImplicitStop(sr, results) == sr = "end_turn" /\ results = 0

\* end of the for loop: stop_reason end_turn and no tool result
ImplicitCompletion ==
  /\ pc = "blocks"
  /\ pending = 0
  /\ ImplicitStop(stopReason, toolResults)
  /\ Finish("implicit", "completed", TRUE,
            IF firstText # <<>> THEN firstText[1] ELSE DefaultSummary,
            meaningfulSteps, <<>>)
  /\ UNCHANGED <<runTaskVars, attempted, loopVars, keyVars, stepsLen, respVars, hbVars, storeVars,
                 elapsed, rejected>>

\* end of the for loop: back to the loop condition
NextIteration ==
  /\ pc = "blocks"
  /\ pending = 0
  /\ ~ImplicitStop(stopReason, toolResults)
  /\ pc' = "loop"
  \* response and toolResults are local to the loop body
  /\ stopReason' = "none"
  /\ toolResults' = 0
  /\ block' = <<>>
  /\ dispatched' = <<>>
  /\ firstText' = <<>>
  /\ keyUpCalls' = <<>>
  /\ UNCHANGED <<runTaskVars, attempted, loopVars, heldKeys, stepsLen, progress, pending, hbVars,
                 storeVars, elapsed, attempt, endVars, rejected>>

\* ------------------------------------------------------------ updateProgress
\* an updateProgress that starts over instead of returning
AfterWriteStartsOver(at) == at

\* where the main flow goes on once the updateProgress it awaits has returned
AfterWrite(at) ==
  CASE at = "stepWrite" -> "blocks"
    [] at = "finalWrite" -> "returned"
    [] at = "initWrite" -> "start"
    [] at = "firstWrite" -> "loop"

\* an updateProgress whose last failure is raised to the wrapper
AfterFailedWriteRaises(at) == "errorPut"

\* every attempt threw: updateProgress returns undefined, which finalizeTask and
\* executeTask only log
AfterFailedWrite(at) == AfterWrite(at)

\* the updateProgress calls that are awaited: of a step, of finalizeTask, of
\* initializeProgress in run_task, of executeTask before its loop
MainWriting == pc \in {"stepWrite", "finalWrite", "initWrite", "firstWrite"}

\* an attempt of the awaited updateProgress succeeds: put stores the object
MainPutOk ==
  /\ MainWriting
  /\ blob' = <<progress>>
  /\ pc' = AfterWrite(pc)
  /\ attempt' = 0
  /\ UNCHANGED <<runTaskVars, attempted, loopVars, keyVars, stepsLen, progress, taskBlob, respVars,
                 hbVars, elapsed, endVars, rejected>>

\* an attempt of the awaited updateProgress throws: retry, or give up
MainPutFails ==
  /\ MainWriting
  /\ IF attempt = DefaultRetries
     THEN pc' = AfterFailedWrite(pc) /\ attempt' = 0
     ELSE pc' = pc /\ attempt' = attempt + 1
  /\ UNCHANGED <<runTaskVars, attempted, loopVars, keyVars, stepsLen, progress, storeVars, respVars,
                 hbVars, elapsed, endVars, rejected>>

\* ----------------------------------------------------------------- heartbeat
\* the setInterval callback runs while the planner call is pending: it copies
\* the progress object ({...progress}: the copy shares the steps_summary array)
\* and starts an updateProgress of the copy, whose first attempt serializes it
HeartbeatFires ==
  /\ pc = "planner"
  /\ hbFired < MaxHeartbeats
  /\ hbFired' = hbFired + 1
  /\ hb' = hb \cup {progress}
  /\ UNCHANGED <<runTaskVars, attempted, pc, loopVars, keyVars, stepsLen, progress, storeVars,
                 respVars, elapsed, attempt, endVars, rejected>>

\* an attempt of a heartbeat's updateProgress succeeds and the call returns;
\* nothing awaits it, so it lands whenever the store answers
HeartbeatPutOk ==
  /\ pc # "done"
  /\ \E payload \in hb :
       /\ blob' = <<payload>>
       /\ hb' = hb \ {payload}
  /\ UNCHANGED <<runTaskVars, attempted, pc, loopVars, keyVars, stepsLen, progress, taskBlob,
                 respVars, hbFired, elapsed, attempt, endVars, rejected>>

\* the copy as JSON.stringify sees it at a later attempt: its own fields, and
\* the steps_summary array as it stands by then
Reserialized(payload) == [payload EXCEPT !.steps_summary = progress.steps_summary]

\* an attempt of a heartbeat's updateProgress throws: after the last attempt
\* the call returns undefined, after an earlier one it sleeps and serializes
\* the copy again. The attempts are not counted: a payload serialized at the
\* second retry is one the first retry yields when it comes as late.
HeartbeatPutFails ==
  /\ pc # "done"
  /\ \E payload \in hb :
       \/ hb' = hb \ {payload}
       \/ /\ Reserialized(payload) # payload
          /\ hb' = (hb \ {payload}) \cup {Reserialized(payload)}
  /\ UNCHANGED <<runTaskVars, attempted, pc, loopVars, keyVars, stepsLen, progress, storeVars,
                 respVars, hbFired, elapsed, attempt, endVars, rejected>>

\* ------------------------------------------------- executeTaskInBackground
\* the record the catch block of executeTaskInBackground stores
ErrorProgress(msg) ==
  [status |-> "failed", current_step |-> 0, steps_summary |-> <<>>,
   final_result |-> <<[success |-> FALSE, summary |-> BackgroundFailedSummary(msg),
                       total_steps |-> 0, error |-> <<msg>>]>>]

\* put of tasks/<taskId>.json succeeds
ResultPutOk ==
  /\ pc = "returned"
  /\ taskBlob' = result
  /\ pc' = "done"
  /\ UNCHANGED <<runTaskVars, attempted, loopVars, keyVars, stepsLen, progress, blob, respVars,
                 hbVars, elapsed, attempt, endVars, rejected>>

\* put of tasks/<taskId>.json throws: the catch block builds errorProgress
ResultPutThrows ==
  /\ pc = "returned"
  /\ \E msg \in BlobFaultMsgs : caught' = <<msg>>
  /\ pc' = "errorPut"
  /\ UNCHANGED <<runTaskVars, attempted, loopVars, keyVars, stepsLen, progress, storeVars, respVars,
                 hbVars, elapsed, attempt, result, exitPath, rejected>>

\* the put of errorProgress succeeds
ErrorPutOk ==
  /\ pc = "errorPut"
  /\ blob' = <<ErrorProgress(caught[1])>>
  /\ pc' = "done"
  /\ UNCHANGED <<runTaskVars, attempted, loopVars, keyVars, stepsLen, progress, taskBlob, respVars,
                 hbVars, elapsed, attempt, endVars, rejected>>

\* the put of errorProgress throws inside the catch block
ErrorPutThrows ==
  /\ pc = "errorPut"
  /\ rejected' = TRUE
  /\ pc' = "done"
  /\ UNCHANGED <<runTaskVars, attempted, loopVars, keyVars, stepsLen, progress, storeVars, respVars,
                 hbVars, elapsed, attempt, endVars>>

\* ------------------------------------------------------------------ run_task
\* a run_task that schedules the background execution without awaiting
\* initializeProgress
ScheduledAtOnce == {"initWrite", "start"}

\* where run_task stands when it calls executeTaskInBackground
ScheduledAt == {"start"}

\* run_task calls executeTaskInBackground, hands the promise to waitUntil and
\* returns. The call runs executeTask up to its first await: the initial
\* write when initializeProgress returned no URL (progressUrl || "" is falsy),
\* the screen size request otherwise.
StartBackground ==
  /\ pc \in ScheduledAt
  /\ response' = <<RunningResponse(blob # <<>>)>>
  /\ pc' = IF blob # <<>> THEN "loop" ELSE "firstWrite"
  /\ attempt' = 0
  /\ UNCHANGED <<maxSteps, args, timeoutSeconds, callArgs, callResult, remoteCalls, attempted, loopVars, keyVars, stepsLen, progress, storeVars,
                 respVars, hbVars, elapsed, endVars, rejected>>

\* ----------------------------------------------------------- specification
\* the steps of the main flow and of the wrapper that awaits it
MainStep ==
  \/ LoopExit \/ TimeoutExit \/ CallPlanner \/ PlannerReturns \/ PlannerThrows
  \/ ProcessText \/ DispatchUnknown \/ DispatchReturns \/ DispatchThrows
  \/ DispatchThrowsAfterPush
  \/ ImplicitCompletion \/ NextIteration \/ MainPutOk \/ MainPutFails
  \/ ResultPutOk \/ ResultPutThrows \/ ErrorPutOk \/ ErrorPutThrows

Next ==
  \/ LoopExit \/ TimeoutExit \/ CallPlanner \/ PlannerReturns \/ PlannerThrows
  \/ ProcessText \/ DispatchUnknown \/ DispatchReturns \/ DispatchThrows
  \/ DispatchThrowsAfterPush
  \/ ImplicitCompletion \/ NextIteration \/ MainPutOk \/ MainPutFails
  \/ HeartbeatFires \/ HeartbeatPutOk \/ HeartbeatPutFails
  \/ ResultPutOk \/ ResultPutThrows \/ ErrorPutOk \/ ErrorPutThrows

Spec == Init /\ [][Next]_vars

\* every planner call, remote call and blob write eventually returns or throws
FairSpec == Init /\ [][Next]_vars /\ WF_vars(MainStep)

\* A task started with max_steps = SummaryLimit + 1, taken at the top of the
\* loop after SummaryLimit meaningful actions and with two iterations left
\* before the iteration cap: one directive per response so far, the
\* observations among them not counted, every step write landed, no heartbeat
\* fired yet, no key held.
SummaryInit ==
  /\ maxSteps = SummaryLimit + 1
  /\ response = <<RunningResponse(TRUE)>>
  /\ args = <<>>
  /\ timeoutSeconds = TimeoutSeconds
  /\ pc = "loop"
  /\ meaningfulSteps = SummaryLimit
  /\ attempted = <<>>
  /\ callArgs = <<>>
  /\ callResult = <<>>
  /\ remoteCalls = <<>>
  /\ totalIterations = 3 * (SummaryLimit + 1) - 2
  /\ plannerCalls = 3 * (SummaryLimit + 1) - 2
  /\ stepsLen = 3 * (SummaryLimit + 1) - 2
  /\ progress = [InitialProgress EXCEPT
                   !.current_step = SummaryLimit,
                   !.steps_summary = [i \in 1..SummaryLimit |-> i]]
  /\ blob = <<progress>>
  /\ heldKeys = {}
  /\ keyUpCalls = <<>>
  /\ taskBlob = <<>>
  /\ pending = 0
  /\ block = <<>>
  /\ stopReason = "none"
  /\ toolResults = 0
  /\ dispatched = <<>>
  /\ firstText = <<>>
  /\ hb = {}
  /\ hbFired = 0
  /\ elapsed = 0
  /\ attempt = 0
  /\ result = <<>>
  /\ exitPath = "none"
  /\ caught = <<>>
  /\ rejected = FALSE

\* the same steps from the point where the rolling summary is full
SummarySpec == SummaryInit /\ [][Next]_vars

\* A task started with max_steps = 3, taken at the top of the loop with two
\* keys held and two iterations left before the iteration cap: five responses
\* with a screenshot, then hold_key ctrl and hold_key shift, one directive per
\* response, every step write landed, no heartbeat fired yet.
ReleaseInit ==
  /\ maxSteps = 3
  /\ response = <<RunningResponse(TRUE)>>
  /\ args = <<>>
  /\ timeoutSeconds = TimeoutSeconds
  /\ pc = "loop"
  /\ meaningfulSteps = 2
  /\ attempted = <<>>
  /\ callArgs = <<>>
  /\ callResult = <<>>
  /\ remoteCalls = <<>>
  /\ totalIterations = 7
  /\ plannerCalls = 7
  /\ stepsLen = 7
  /\ progress = [InitialProgress EXCEPT
                   !.current_step = 2,
                   !.steps_summary = <<1, 2>>]
  /\ blob = <<progress>>
  /\ heldKeys = {"ctrl", "shift"}
  /\ keyUpCalls = <<>>
  /\ taskBlob = <<>>
  /\ pending = 0
  /\ block = <<>>
  /\ stopReason = "none"
  /\ toolResults = 0
  /\ dispatched = <<>>
  /\ firstText = <<>>
  /\ hb = {}
  /\ hbFired = 0
  /\ elapsed = 0
  /\ attempt = 0
  /\ result = <<>>
  /\ exitPath = "none"
  /\ caught = <<>>
  /\ rejected = FALSE

\* the same steps from the point where two keys are held
ReleaseSpec == ReleaseInit /\ [][Next]_vars

\* Init with the history of dispatched meaningful directives kept
HistoryInit ==
  /\ maxSteps \in 1..MaxStepsBound
  /\ response = <<RunningResponse(TRUE)>>
  /\ args = <<>>
  /\ timeoutSeconds = TimeoutSeconds
  /\ attempted = <<0>>
  /\ callArgs = <<>>
  /\ callResult = <<>>
  /\ remoteCalls = <<>>
  /\ blob = <<InitialProgress>>
  /\ pc = "loop"
  /\ meaningfulSteps = 0
  /\ totalIterations = 0
  /\ plannerCalls = 0
  /\ heldKeys = {}
  /\ keyUpCalls = <<>>
  /\ stepsLen = 0
  /\ progress = InitialProgress
  /\ taskBlob = <<>>
  /\ pending = 0
  /\ block = <<>>
  /\ stopReason = "none"
  /\ toolResults = 0
  /\ dispatched = <<>>
  /\ firstText = <<>>
  /\ hb = {}
  /\ hbFired = 0
  /\ elapsed = 0
  /\ attempt = 0
  /\ result = <<>>
  /\ exitPath = "none"
  /\ caught = <<>>
  /\ rejected = FALSE

\* the task of Spec, with that history
HistorySpec == HistoryInit /\ [][Next]_vars

\* run_task after its argument checks, about to await initializeProgress
SubmitInit ==
  /\ maxSteps \in 1..MaxStepsBound
  /\ response = <<>>
  /\ args = <<>>
  /\ timeoutSeconds = TimeoutSeconds
  /\ blob = <<>>
  /\ pc = "initWrite"
  /\ meaningfulSteps = 0
  /\ attempted = <<>>
  /\ callArgs = <<>>
  /\ callResult = <<>>
  /\ remoteCalls = <<>>
  /\ totalIterations = 0
  /\ plannerCalls = 0
  /\ heldKeys = {}
  /\ keyUpCalls = <<>>
  /\ stepsLen = 0
  /\ progress = InitialProgress
  /\ taskBlob = <<>>
  /\ pending = 0
  /\ block = <<>>
  /\ stopReason = "none"
  /\ toolResults = 0
  /\ dispatched = <<>>
  /\ firstText = <<>>
  /\ hb = {}
  /\ hbFired = 0
  /\ elapsed = 0
  /\ attempt = 0
  /\ result = <<>>
  /\ exitPath = "none"
  /\ caught = <<>>
  /\ rejected = FALSE

SubmitNext == StartBackground \/ Next

\* run_task from the initial write on, and the task it starts
SubmitSpec == SubmitInit /\ [][SubmitNext]_vars

\* run_task computes its two budgets from the arguments
ClampBudgets ==
  /\ pc = "args"
  /\ maxSteps' = ClampBudget(args[1].max_steps, DEFAULT_MAX_STEPS, MAX_STEPS_LIMIT)
  /\ timeoutSeconds' =
       ClampBudget(args[1].timeout_seconds, DEFAULT_TIMEOUT_SECONDS, MAX_TIMEOUT_SECONDS)
  /\ pc' = "host"
  /\ UNCHANGED <<response, args, callArgs, callResult, remoteCalls, attempted, loopVars, keyVars, stepsLen, progress, storeVars,
                 respVars, hbVars, elapsed, attempt, endVars, rejected>>

\* run_task with a valid sandbox name and task, before it reads its budgets
\* (0: the constant is not computed yet)
ClampInit ==
  /\ args \in {<<a>> : a \in [max_steps : RawArgs, timeout_seconds : RawArgs]}
  /\ pc = "args"
  /\ maxSteps = 0
  /\ timeoutSeconds = 0
  /\ response = <<>>
  /\ blob = <<>>
  /\ meaningfulSteps = 0
  /\ attempted = <<>>
  /\ callArgs = <<>>
  /\ callResult = <<>>
  /\ remoteCalls = <<>>
  /\ totalIterations = 0
  /\ plannerCalls = 0
  /\ heldKeys = {}
  /\ keyUpCalls = <<>>
  /\ stepsLen = 0
  /\ progress = InitialProgress
  /\ taskBlob = <<>>
  /\ pending = 0
  /\ block = <<>>
  /\ stopReason = "none"
  /\ toolResults = 0
  /\ dispatched = <<>>
  /\ firstText = <<>>
  /\ hb = {}
  /\ hbFired = 0
  /\ elapsed = 0
  /\ attempt = 0
  /\ result = <<>>
  /\ exitPath = "none"
  /\ caught = <<>>
  /\ rejected = FALSE

ClampNext == ClampBudgets

\* the budget computation of run_task over the argument values
ClampSpec == ClampInit /\ [][ClampNext]_vars

\* validateCoordinates called on its own
CallValidate ==
  /\ pc = "validate"
  /\ callResult' = <<ValidateCoordinates(callArgs[1].x, callArgs[1].y,
                                         callArgs[1].width, callArgs[1].height)>>
  /\ pc' = "validated"
  /\ UNCHANGED <<maxSteps, response, args, timeoutSeconds, callArgs, remoteCalls, attempted,
                 loopVars,
                 keyVars, stepsLen, progress, storeVars, respVars, hbVars, elapsed,
                 attempt, endVars, rejected>>

\* a caller about to validate integer coordinates against an integer display
\* size; no task is running
ValidateInit ==
  /\ callArgs \in {<<a>> : a \in [x : -1..MaxCoord, y : -1..MaxCoord,
                                   width : -1..MaxCoord, height : -1..MaxCoord]}
  /\ callResult = <<>>
  /\ remoteCalls = <<>>
  /\ pc = "validate"
  /\ maxSteps = 1
  /\ timeoutSeconds = TimeoutSeconds
  /\ args = <<>>
  /\ response = <<>>
  /\ attempted = <<>>
  /\ blob = <<>>
  /\ meaningfulSteps = 0
  /\ totalIterations = 0
  /\ plannerCalls = 0
  /\ heldKeys = {}
  /\ keyUpCalls = <<>>
  /\ stepsLen = 0
  /\ progress = InitialProgress
  /\ taskBlob = <<>>
  /\ pending = 0
  /\ block = <<>>
  /\ stopReason = "none"
  /\ toolResults = 0
  /\ dispatched = <<>>
  /\ firstText = <<>>
  /\ hb = {}
  /\ hbFired = 0
  /\ elapsed = 0
  /\ attempt = 0
  /\ result = <<>>
  /\ exitPath = "none"
  /\ caught = <<>>
  /\ rejected = FALSE

ValidateNext == CallValidate

\* validateCoordinates over the integers around a display
ValidateSpec == ValidateInit /\ [][ValidateNext]_vars

\* ---------------------------------------------------------------- handleZoom
\* Math.max(0, Math.floor(center - size / 2)) for an integer centre and an
\* even size
RegionOrigin(center, size) ==
  IF center - size \div 2 > 0 THEN center - size \div 2 ELSE 0

\* what handleZoom returns; image tells which capture the content carries,
\* region the x and y of the screenshotRegion calls (<<>>: none was made)
ZoomResult(success, error, image, region) ==
  [success |-> success, error |-> error, image |-> image, region |-> region,
   thrown |-> FALSE]

\* the x and y handleZoom passes to screenshotRegion
ZoomRegion(input) ==
  <<RegionOrigin(input.coordinate[1], ZOOM_REGION_WIDTH),
    RegionOrigin(input.coordinate[2], ZOOM_REGION_HEIGHT)>>

\* what a capture call of the computer client can come to: a result with an
\* image, a result with success false, a result without image, an exception
CaptureOutcomes == {"image", "failed", "noImage", "throw"}

\* one call on the computer client, as the log keeps it
RemoteCall(command, outcome) == [command |-> command, outcome |-> outcome]

\* !result.success || !result.base64_image
NoImage == {"failed", "noImage"}

\* the capture is repeated after a first failure, and only then
RetriesTwice(tries) == tries <= 1
Retries(tries) == tries = 0

\* handleZoom starts: validateAndExtractCoords, and the return on its failure
ZoomValidates ==
  /\ pc = "zoom"
  /\ LET coords == ValidateAndExtractCoords(callArgs[1], callArgs[1].displayWidth,
                                            callArgs[1].displayHeight)
     IN IF coords.valid
        THEN pc' = "zoomRegion" /\ attempt' = 0 /\ callResult' = callResult
        ELSE /\ pc' = "zoomed"
             /\ attempt' = attempt
             /\ callResult' = <<ZoomResult(FALSE, coords.error, "none", <<>>)>>
  /\ UNCHANGED <<maxSteps, response, args, timeoutSeconds, callArgs, remoteCalls, attempted,
                 loopVars,
                 keyVars, stepsLen, progress, storeVars, respVars, hbVars, elapsed,
                 endVars, rejected>>

\* screenshotRegion returns an image, at the first call or at the retry
ZoomRegionOk ==
  /\ pc = "zoomRegion"
  /\ remoteCalls' = Append(remoteCalls, RemoteCall("screenshotRegion", "image"))
  /\ callResult' = <<ZoomResult(TRUE, <<>>, "region", ZoomRegion(callArgs[1]))>>
  /\ pc' = "zoomed"
  /\ UNCHANGED <<maxSteps, response, args, timeoutSeconds, callArgs, attempted, loopVars,
                 keyVars, stepsLen, progress, storeVars, respVars, hbVars, elapsed,
                 attempt, endVars, rejected>>

\* screenshotRegion returns no image: one retry, then the full screenshot
ZoomRegionFails ==
  /\ pc = "zoomRegion"
  /\ \E o \in NoImage :
       remoteCalls' = Append(remoteCalls, RemoteCall("screenshotRegion", o))
  /\ IF Retries(attempt) THEN pc' = pc /\ attempt' = attempt + 1
                         ELSE pc' = "zoomFull" /\ attempt' = 0
  /\ UNCHANGED <<maxSteps, response, args, timeoutSeconds, callArgs, callResult, attempted,
                 loopVars, keyVars, stepsLen, progress, storeVars, respVars, hbVars,
                 elapsed, endVars, rejected>>

\* the fallback computer.screenshot() returns an image
ZoomFullOk ==
  /\ pc = "zoomFull"
  /\ remoteCalls' = Append(remoteCalls, RemoteCall("screenshot", "image"))
  /\ callResult' = <<ZoomResult(TRUE, <<>>, "full", ZoomRegion(callArgs[1]))>>
  /\ pc' = "zoomed"
  /\ UNCHANGED <<maxSteps, response, args, timeoutSeconds, callArgs, attempted, loopVars,
                 keyVars, stepsLen, progress, storeVars, respVars, hbVars, elapsed,
                 attempt, endVars, rejected>>

\* the fallback returns no image either: the failure return
ZoomFullFails ==
  /\ pc = "zoomFull"
  /\ \E o \in NoImage :
       remoteCalls' = Append(remoteCalls, RemoteCall("screenshot", o))
  /\ callResult' = <<ZoomResult(FALSE, RemoteError, "none", ZoomRegion(callArgs[1]))>>
  /\ pc' = "zoomed"
  /\ UNCHANGED <<maxSteps, response, args, timeoutSeconds, callArgs, attempted, loopVars,
                 keyVars, stepsLen, progress, storeVars, respVars, hbVars, elapsed,
                 attempt, endVars, rejected>>

\* a remote call of handleZoom throws: the promise of the handler rejects
ZoomThrows ==
  /\ pc \in {"zoomRegion", "zoomFull"}
  /\ remoteCalls' =
       Append(remoteCalls,
              RemoteCall(IF pc = "zoomRegion" THEN "screenshotRegion" ELSE "screenshot",
                         "throw"))
  /\ \E msg \in HandlerFaultMsgs :
       callResult' = <<[ZoomResult(FALSE, <<msg>>, "none", ZoomRegion(callArgs[1]))
                         EXCEPT !.thrown = TRUE]>>
  /\ pc' = "zoomed"
  /\ UNCHANGED <<maxSteps, response, args, timeoutSeconds, callArgs, attempted, loopVars,
                 keyVars, stepsLen, progress, storeVars, respVars, hbVars, elapsed,
                 attempt, endVars, rejected>>

\* handleZoom about to run on a zoom directive with or without coordinate, on
\* a display of up to MaxCoord x MaxCoord; no key held, nothing stored
ZoomInit ==
  /\ callArgs \in
       {<<a>> : a \in [action : {"zoom"},
                       coordinate : {<<>>} \cup ((-1..MaxCoord) \X (-1..MaxCoord)),
                       displayWidth : 1..MaxCoord, displayHeight : 1..MaxCoord]}
  /\ callResult = <<>>
  /\ remoteCalls = <<>>
  /\ pc = "zoom"
  /\ maxSteps = 1
  /\ timeoutSeconds = TimeoutSeconds
  /\ args = <<>>
  /\ response = <<>>
  /\ attempted = <<>>
  /\ blob = <<>>
  /\ meaningfulSteps = 0
  /\ totalIterations = 0
  /\ plannerCalls = 0
  /\ heldKeys = {}
  /\ keyUpCalls = <<>>
  /\ stepsLen = 0
  /\ progress = InitialProgress
  /\ taskBlob = <<>>
  /\ pending = 0
  /\ block = <<>>
  /\ stopReason = "none"
  /\ toolResults = 0
  /\ dispatched = <<>>
  /\ firstText = <<>>
  /\ hb = {}
  /\ hbFired = 0
  /\ elapsed = 0
  /\ attempt = 0
  /\ result = <<>>
  /\ exitPath = "none"
  /\ caught = <<>>
  /\ rejected = FALSE

ZoomNext ==
  \/ ZoomValidates \/ ZoomRegionOk \/ ZoomRegionFails \/ ZoomFullOk \/ ZoomFullFails
  \/ ZoomThrows

\* handleZoom over zoom directives and the answers of the sandbox
ZoomSpec == ZoomInit /\ [][ZoomNext]_vars

\* every variable of a task at rest: no task runs while a handler is called
\* on its own
NoTask ==
  /\ maxSteps = 1
  /\ timeoutSeconds = TimeoutSeconds
  /\ args = <<>>
  /\ response = <<>>
  /\ attempted = <<>>
  /\ blob = <<>>
  /\ meaningfulSteps = 0
  /\ totalIterations = 0
  /\ plannerCalls = 0
  /\ heldKeys = {}
  /\ keyUpCalls = <<>>
  /\ stepsLen = 0
  /\ progress = InitialProgress
  /\ taskBlob = <<>>
  /\ pending = 0
  /\ block = <<>>
  /\ stopReason = "none"
  /\ toolResults = 0
  /\ dispatched = <<>>
  /\ firstText = <<>>
  /\ hb = {}
  /\ hbFired = 0
  /\ elapsed = 0
  /\ attempt = 0
  /\ result = <<>>
  /\ exitPath = "none"
  /\ caught = <<>>
  /\ rejected = FALSE

\* the ActionResult a handler returns
ActionResult(success, error) ==
  [success |-> success, error |-> error, thrown |-> FALSE]

\* result.error of a capture that came to outcome o (<<>>: undefined)
CaptureError(o) == IF o = "failed" THEN RemoteError ELSE <<>>

\* computer.screenshot() returns an image, at the first call or at the retry
ScreenshotOk ==
  /\ pc = "screenshot"
  /\ remoteCalls' = Append(remoteCalls, RemoteCall("screenshot", "image"))
  /\ callResult' = <<ActionResult(TRUE, <<>>)>>
  /\ pc' = "screenshotted"
  /\ UNCHANGED <<maxSteps, response, args, timeoutSeconds, callArgs, attempted, loopVars,
                 keyVars, stepsLen, progress, storeVars, respVars, hbVars, elapsed,
                 attempt, endVars, rejected>>

\* computer.screenshot() returns no image: one retry, then the failure return
ScreenshotFails ==
  /\ pc = "screenshot"
  /\ \E o \in NoImage :
       /\ remoteCalls' = Append(remoteCalls, RemoteCall("screenshot", o))
       /\ IF Retries(attempt)
          THEN pc' = pc /\ attempt' = attempt + 1 /\ callResult' = callResult
          ELSE /\ pc' = "screenshotted"
               /\ attempt' = attempt
               /\ callResult' = <<ActionResult(FALSE, CaptureError(o))>>
  /\ UNCHANGED <<maxSteps, response, args, timeoutSeconds, callArgs, attempted, loopVars,
                 keyVars, stepsLen, progress, storeVars, respVars, hbVars, elapsed,
                 endVars, rejected>>

\* computer.screenshot() throws: the promise of handleScreenshot rejects
ScreenshotThrows ==
  /\ pc = "screenshot"
  /\ remoteCalls' = Append(remoteCalls, RemoteCall("screenshot", "throw"))
  /\ \E msg \in HandlerFaultMsgs :
       callResult' = <<[ActionResult(FALSE, <<msg>>) EXCEPT !.thrown = TRUE]>>
  /\ pc' = "screenshotted"
  /\ UNCHANGED <<maxSteps, response, args, timeoutSeconds, callArgs, attempted, loopVars,
                 keyVars, stepsLen, progress, storeVars, respVars, hbVars, elapsed,
                 attempt, endVars, rejected>>

\* handleScreenshot or handleZoom about to run, on a display of up to
\* MaxCoord x MaxCoord
CaptureInit ==
  /\ callArgs \in
       {<<a>> : a \in [action : {"zoom"},
                       coordinate : {<<>>} \cup ((-1..MaxCoord) \X (-1..MaxCoord)),
                       displayWidth : 1..MaxCoord, displayHeight : 1..MaxCoord]}
       \cup {<<a>> : a \in [action : {"screenshot"}, coordinate : {<<>>},
                             displayWidth : 1..MaxCoord, displayHeight : 1..MaxCoord]}
  /\ callResult = <<>>
  /\ remoteCalls = <<>>
  /\ pc = callArgs[1].action
  /\ NoTask

CaptureNext ==
  \/ ZoomNext \/ ScreenshotOk \/ ScreenshotFails \/ ScreenshotThrows

\* the two capture handlers over their directives and the answers of the sandbox
CaptureSpec == CaptureInit /\ [][CaptureNext]_vars

\* the registered handlers that act through mouse and keyboard commands
InputHandlers ==
  {"left_click", "left_click_drag", "left_mouse_down", "left_mouse_up", "type", "key",
   "hold_key"}

\* input.text of a directive: absent or empty, one key, a combination
InputTexts == {<<>>, <<"a">>, <<"ctrl", "+", "c">>}

\* input.key of a directive ("": absent)
InputKeys == {"", "Shift"}

DragRequiresMsg == <<"left_click_drag requires start_coordinate and coordinate">>
TypeRequiresTextMsg == <<"type requires text">>
KeyRequiresTextMsg == <<"key requires text">>

\* const startCoord = input.start_coordinate || input.coordinate
StartCoord(input) ==
  IF input.start_coordinate # <<>> THEN input.start_coordinate ELSE input.coordinate

\* the error handleLeftClickDrag returns before it calls computer.drag
\* (<<>>: none)
DragRefusalStartOnly(input) ==
  LET start == StartCoord(input)
  IN IF start = <<>> \/ input.coordinate = <<>>
     THEN DragRequiresMsg
     ELSE ValidateCoordinates(start[1], start[2], DisplayWidth, DisplayHeight).error
DragRefusal(input) ==
  LET start == StartCoord(input)
      end == input.coordinate
  IN IF start = <<>> \/ end = <<>>
     THEN DragRequiresMsg
     ELSE LET startValidation ==
                ValidateCoordinates(start[1], start[2], DisplayWidth, DisplayHeight)
              endValidation ==
                ValidateCoordinates(end[1], end[2], DisplayWidth, DisplayHeight)
          IN IF ~startValidation.valid THEN startValidation.error
             ELSE endValidation.error

\* the error a handler returns before its first remote call (<<>>: none)
Refusal(input) ==
  CASE input.action = "left_click" ->
         ValidateAndExtractCoords(input, DisplayWidth, DisplayHeight).error
    [] input.action = "left_click_drag" -> DragRefusal(input)
    [] input.action = "type" -> IF input.text = <<>> THEN TypeRequiresTextMsg ELSE <<>>
    [] input.action = "key" -> IF input.text = <<>> THEN KeyRequiresTextMsg ELSE <<>>
    [] input.action = "hold_key" ->
         IF input.key = "" /\ input.text = <<>> THEN HoldKeyRequiresKeyMsg ELSE <<>>
    [] OTHER -> <<>>

\* the commands the client method of the handler sends, in order
Commands(input) ==
  CASE input.action = "left_click" -> <<"move_cursor", "left_click">>
    [] input.action = "left_click_drag" ->
         <<"move_cursor", "mouse_down", "move_cursor", "mouse_up">>
    [] input.action = "left_mouse_down" -> <<"mouse_down">>
    [] input.action = "left_mouse_up" -> <<"mouse_up">>
    [] input.action = "type" -> <<"type_text">>
    [] input.action = "key" ->
         IF Includes(input.text, "+") THEN <<"hotkey">> ELSE <<"press_key">>
    [] input.action = "hold_key" -> <<"key_down">>

\* the handler looks at result.success of its client method
ReadsResult(input) ==
  input.action \notin {"left_mouse_down", "left_mouse_up", "hold_key"}

\* what sendCommand can come to: success true, success false, an exception
CommandOutcomes == {"ok", "fail", "throw"}

\* the handler starts: its checks of the input, and the return on a failure
HandlerStarts ==
  /\ pc = "handler"
  /\ LET error == Refusal(callArgs[1])
     IN IF error = <<>>
        THEN pc' = "remote" /\ callResult' = callResult
        ELSE pc' = "handled" /\ callResult' = <<ActionResult(FALSE, error)>>
  /\ UNCHANGED <<maxSteps, response, args, timeoutSeconds, callArgs, remoteCalls,
                 attempted, loopVars, keyVars, stepsLen, progress, storeVars, respVars,
                 hbVars, elapsed, attempt, endVars, rejected>>

\* the next sendCommand of the client method returns a CommandResult
RemoteReturns ==
  /\ pc = "remote"
  /\ Len(remoteCalls) < Len(Commands(callArgs[1]))
  /\ \E o \in CommandOutcomes \ {"throw"} :
       remoteCalls' =
         Append(remoteCalls,
                RemoteCall(Commands(callArgs[1])[Len(remoteCalls) + 1], o))
  /\ UNCHANGED <<maxSteps, response, args, timeoutSeconds, callArgs, callResult,
                 attempted, loopVars, keyVars, stepsLen, progress, storeVars, respVars,
                 hbVars, elapsed, attempt, endVars, rejected, pc>>

\* the next sendCommand throws (response.text() and response.json() stand
\* outside its try): the promise of the handler rejects
RemoteThrows ==
  /\ pc = "remote"
  /\ Len(remoteCalls) < Len(Commands(callArgs[1]))
  /\ remoteCalls' =
       Append(remoteCalls,
              RemoteCall(Commands(callArgs[1])[Len(remoteCalls) + 1], "throw"))
  /\ \E msg \in HandlerFaultMsgs :
       callResult' = <<[ActionResult(FALSE, <<msg>>) EXCEPT !.thrown = TRUE]>>
  /\ pc' = "handled"
  /\ UNCHANGED <<maxSteps, response, args, timeoutSeconds, callArgs, attempted, loopVars,
                 keyVars, stepsLen, progress, storeVars, respVars, hbVars, elapsed,
                 attempt, endVars, rejected>>

\* the client method has returned the result of its last command: the
\* handler returns
HandlerReturns ==
  /\ pc = "remote"
  /\ Len(remoteCalls) = Len(Commands(callArgs[1]))
  /\ LET last == remoteCalls[Len(remoteCalls)]
     IN callResult' =
          <<IF ReadsResult(callArgs[1]) /\ last.outcome # "ok"
            THEN ActionResult(FALSE, RemoteError)
            ELSE ActionResult(TRUE, <<>>)>>
  /\ pc' = "handled"
  /\ UNCHANGED <<maxSteps, response, args, timeoutSeconds, callArgs, remoteCalls,
                 attempted, loopVars, keyVars, stepsLen, progress, storeVars, respVars,
                 hbVars, elapsed, attempt, endVars, rejected>>

\* a mouse or keyboard handler about to run on a directive whose fields are
\* absent, valid or outside the display
HandlerInit ==
  /\ callArgs \in
       {<<a>> : a \in [action : InputHandlers, coordinate : Coordinates,
                       start_coordinate : Coordinates, text : InputTexts,
                       key : InputKeys]}
  /\ callResult = <<>>
  /\ remoteCalls = <<>>
  /\ pc = "handler"
  /\ NoTask

HandlerNext == HandlerStarts \/ RemoteReturns \/ RemoteThrows \/ HandlerReturns

\* the mouse and keyboard handlers over their directives and the answers of
\* the sandbox
HandlerSpec == HandlerInit /\ [][HandlerNext]_vars

\* blob.url of a put that succeeded
BlobUrl == <<"https://blob/progress/task.json">>

\* one step of updateProgress as the log keeps it: a put with its outcome, or
\* a sleep with its duration
WriteStep(command, outcome, ms) == [command |-> command, outcome |-> outcome, ms |-> ms]

\* the wait after a failed attempt
BackoffConstant(tries) == RETRY_BACKOFF_BASE_MS
Backoff(tries) == RETRY_BACKOFF_BASE_MS * (tries + 1)

\* put resolves: updateProgress returns blob.url
UpdatePutOk ==
  /\ pc = "put"
  /\ remoteCalls' = Append(remoteCalls, WriteStep("put", "ok", 0))
  /\ blob' = <<progress>>
  /\ callResult' = <<[url |-> BlobUrl]>>
  /\ pc' = "updated"
  /\ UNCHANGED <<maxSteps, response, args, timeoutSeconds, callArgs, attempted, loopVars,
                 keyVars, stepsLen, progress, taskBlob, respVars, hbVars, elapsed,
                 attempt, endVars, rejected>>

\* put rejects: on the last attempt updateProgress returns undefined,
\* otherwise it goes to its sleep
UpdatePutThrows ==
  /\ pc = "put"
  /\ remoteCalls' = Append(remoteCalls, WriteStep("put", "throw", 0))
  /\ IF attempt = callArgs[1].retries
     THEN pc' = "updated" /\ callResult' = <<[url |-> <<>>]>>
     ELSE pc' = "sleep" /\ callResult' = callResult
  /\ UNCHANGED <<maxSteps, response, args, timeoutSeconds, callArgs, attempted, loopVars,
                 keyVars, stepsLen, progress, storeVars, respVars, hbVars, elapsed,
                 attempt, endVars, rejected>>

\* the sleep before the next attempt is over: attempt++
UpdateSleeps ==
  /\ pc = "sleep"
  /\ remoteCalls' = Append(remoteCalls, WriteStep("sleep", "ok", Backoff(attempt)))
  /\ attempt' = attempt + 1
  /\ pc' = "put"
  /\ UNCHANGED <<maxSteps, response, args, timeoutSeconds, callArgs, callResult,
                 attempted, loopVars, keyVars, stepsLen, progress, storeVars, respVars,
                 hbVars, elapsed, endVars, rejected>>

\* updateProgress about to run on a record of any status, with its default
\* number of retries or another one
UpdateInit ==
  /\ callArgs \in {<<a>> : a \in [retries : 0..(DefaultRetries + 1)]}
  /\ callResult = <<>>
  /\ remoteCalls = <<>>
  /\ pc = "put"
  /\ progress \in {[InitialProgress EXCEPT !.status = st] :
                     st \in {"running", "completed", "failed", "timeout"}}
  /\ maxSteps = 1
  /\ timeoutSeconds = TimeoutSeconds
  /\ args = <<>>
  /\ response = <<>>
  /\ attempted = <<>>
  /\ blob = <<>>
  /\ meaningfulSteps = 0
  /\ totalIterations = 0
  /\ plannerCalls = 0
  /\ heldKeys = {}
  /\ keyUpCalls = <<>>
  /\ stepsLen = 0
  /\ taskBlob = <<>>
  /\ pending = 0
  /\ block = <<>>
  /\ stopReason = "none"
  /\ toolResults = 0
  /\ dispatched = <<>>
  /\ firstText = <<>>
  /\ hb = {}
  /\ hbFired = 0
  /\ elapsed = 0
  /\ attempt = 0
  /\ result = <<>>
  /\ exitPath = "none"
  /\ caught = <<>>
  /\ rejected = FALSE

UpdateNext == UpdatePutOk \/ UpdatePutThrows \/ UpdateSleeps

\* updateProgress over the answers of the blob store
UpdateSpec == UpdateInit /\ [][UpdateNext]_vars

\* ================================================================== claims
Terminal == {"completed", "failed", "timeout"}

\* executeTask has returned its TaskResult
Returned == pc \in {"returned", "errorPut", "done"}

\* this step of the for loop takes the next block of the response
Reaches == pending' = pending - 1

\* this step dispatches a tool_use block: its step record is pushed
Handles == stepsLen' > stepsLen

\* this step dispatches a tool_use block of a registered action
AtRegistered == Handles /\ block'[1].action \in ACTION_HANDLERS

\* ---------------------------------------------------------------------- C1
\* C1: in every reachable state the progress record's current_step, in the
\* canonical object and in the stored record, is at most max_steps.
C1_CurrentStepWithinBudget ==
  /\ progress.current_step <= maxSteps
  /\ blob # <<>> => blob[1].current_step <= maxSteps

\* ---------------------------------------------------------------------- C2
\* C2: once a record with status completed, failed or timeout is stored under
\* progress/<taskId>, no later write changes the stored record.
C2_TerminalRecordFrozen ==
  [][(blob # <<>> /\ blob[1].status \in Terminal) => blob' = blob]_vars

\* ---------------------------------------------------------------------- C3
\* C3: the current_step values successively stored under progress/<taskId>
\* never decrease.
C3_StoredStepMonotone ==
  [][(blob # <<>> /\ blob' # <<>>) => blob'[1].current_step >= blob[1].current_step]_vars

\* ---------------------------------------------------------------------- C4
\* C4: dispatching screenshot or zoom leaves current_step unchanged, and
\* dispatching any other registered action raises it by exactly one, whether
\* the action succeeded or failed.
C4_OneStepPerDispatch ==
  [][AtRegistered =>
       IF block'[1].action \in {"screenshot", "zoom"}
       THEN progress'.current_step = progress.current_step
       ELSE progress'.current_step = progress.current_step + 1]_vars

\* ---------------------------------------------------------------------- C5
\* C5: when keys are held and a registered action outside screenshot, zoom,
\* hold_key and wait is dispatched, exactly one key-up is issued for each held
\* key before the next directive and the held-key set is empty afterwards, even
\* if the action failed; a dispatch with no key held issues no key-up.
C5_AutoReleaseAfterAction ==
  [][(AtRegistered
        /\ block'[1].action \notin {"screenshot", "zoom", "hold_key", "wait"}) =>
       /\ heldKeys' = {}
       /\ \A k \in heldKeys :
            Cardinality({i \in DOMAIN keyUpCalls' : keyUpCalls'[i].key = k}) = 1
       /\ \A i \in DOMAIN keyUpCalls' : keyUpCalls'[i].key \in heldKeys]_vars

C7_Terminates == <>Returned

\* the task returned without one meaningful action, stopped by the iteration cap
C7_Witness ==
  /\ Returned
  /\ exitPath = "exhausted"
  /\ meaningfulSteps = 0
  /\ stepsLen > 0

\* ---------------------------------------------------------------------- C8
\* a text block with one of the two markers
HasMarker(b) ==
  b.type = "text" /\ (Includes(b.text, "TASK_COMPLETE:") \/ Includes(b.text, "TASK_FAILED:"))

\* C8 as stated: no directive of a response that carries a marker is executed,
\* wherever the marker stands: when the for loop reaches the marker, no
\* directive of that response has been dispatched.
C8_NoDirectiveBesideMarker ==
  [][(Reaches /\ HasMarker(block'[1])) => toolResults = 0]_vars

\* the main loop touches nothing any more
LoopFrozen ==
  UNCHANGED <<pending, block, stepsLen, toolResults, dispatched, meaningfulSteps,
              heldKeys, keyUpCalls, plannerCalls, totalIterations, exitPath, result>>

\* C8 amended: when the for loop reaches a text segment with a marker the task
\* ends with that marker's outcome, and from then on no directive is
\* dispatched, no key is touched and the planner is not called again: the
\* directives standing after the segment stay undispatched.
C8_MarkerEndsTask ==
  /\ [][(Reaches /\ block'[1].type = "text") =>
          LET text == block'[1].text
          IN /\ Includes(text, "TASK_COMPLETE:") =>
                  /\ pc' = "finalWrite"
                  /\ progress'.status = "completed"
                  /\ result'[1].success
             /\ (Includes(text, "TASK_FAILED:") /\ ~Includes(text, "TASK_COMPLETE:")) =>
                  /\ pc' = "finalWrite"
                  /\ progress'.status = "failed"
                  /\ ~result'[1].success]_vars
  /\ [][(exitPath \in {"complete", "failed"}) => LoopFrozen]_vars

\* a completion marker ended the task and the directive that stands after it
\* in the response (it stopped for tool use) was left alone
C8_Witness ==
  /\ exitPath = "complete"
  /\ Returned
  /\ pending >= 1
  /\ stopReason = "tool_use"
  /\ toolResults = 0
  /\ stepsLen = 0

\* ---------------------------------------------------------------------- C9
\* C9: the planner is never called once current_step has reached max_steps;
\* with max_steps = 1, once a click has been counted the planner is not called
\* again and the task ends with the action-limit failure unless a marker of
\* the same response ends it first.
C9_BudgetCheckedBeforeCall ==
  /\ [](pc = "planner" =>
          /\ meaningfulSteps < maxSteps
          /\ progress.current_step < maxSteps)
  /\ [][(meaningfulSteps >= maxSteps) => plannerCalls' = plannerCalls]_vars
  /\ []((maxSteps = 1 /\ meaningfulSteps >= 1 /\ Returned
           /\ exitPath \notin {"complete", "failed"}) =>
          /\ exitPath = "exhausted"
          /\ progress.status = "failed"
          /\ result[1].error = ReachedLimitMsg(maxSteps, meaningfulSteps))

\* max_steps = 1: one planner call, one click, then the action-limit failure
C9_Witness ==
  /\ maxSteps = 1
  /\ Returned
  /\ plannerCalls = 1
  /\ progress.current_step = 1
  /\ exitPath = "exhausted"

\* --------------------------------------------------------------------- C10
\* what a caller branching on the error text can tell
IsActionLimit(e) == Len(e) = 5 /\ e[1] = "Reached " /\ e[3] = " action limit ("
IsSafetyLimit(e) == Len(e) = 3 /\ e[1] = "Safety limit reached ("
IsTimeout(e) == Len(e) = 3 /\ e[1] = "Timeout after "
IsPlannerFailure(e) == e = <<"Task failed">>

\* C10: a failing result's error identifies its cause: the action limit when
\* the loop ends with meaningfulSteps >= max_steps, the safety limit when it
\* ends on the iteration cap with meaningfulSteps < max_steps, and these differ
\* from each other and from the errors of timeout, planner-reported failure and
\* planner fault.
C10_ReasonIdentifiesCause ==
  (result # <<>> /\ ~result[1].success) =>
    LET e == result[1].error
    IN /\ IsActionLimit(e) <=> (exitPath = "exhausted" /\ meaningfulSteps >= maxSteps)
       /\ IsSafetyLimit(e) <=>
            (exitPath = "exhausted" /\ meaningfulSteps < maxSteps
               /\ totalIterations >= 3 * maxSteps)
       /\ IsTimeout(e) <=> exitPath = "timeout"
       /\ IsPlannerFailure(e) <=> exitPath = "failed"
       /\ (exitPath = "fault") <=>
            ~(IsActionLimit(e) \/ IsSafetyLimit(e) \/ IsTimeout(e) \/ IsPlannerFailure(e))
       /\ progress.final_result[1].error = e

\* only observation actions were dispatched and the safety limit is reported
C10_Witness ==
  /\ Returned
  /\ exitPath = "exhausted"
  /\ meaningfulSteps = 0
  /\ stepsLen = 3 * maxSteps
  /\ IsSafetyLimit(result[1].error)

\* --------------------------------------------------------------------- C11
\* C11: when an iteration starts with the elapsed time above timeout_seconds
\* the task ends there: no planner call and no dispatch follow, the progress
\* status becomes timeout, the result has success = false and its error names
\* the configured timeout.
C11_TimeoutEndsTask ==
  /\ [][(pc = "loop" /\ totalIterations' = totalIterations + 1
           /\ elapsed' > TimeoutSeconds * 1000) =>
          /\ pc' = "finalWrite"
          /\ progress'.status = "timeout"
          /\ ~result'[1].success
          /\ Includes(result'[1].error, ToString(TimeoutSeconds))
          /\ progress'.final_result[1].error = result'[1].error
          /\ plannerCalls' = plannerCalls
          /\ stepsLen' = stepsLen]_vars
  /\ [][(exitPath = "timeout") => (LoopFrozen /\ progress' = progress)]_vars

\* a task that had called the planner and dispatched a directive timed out
C11_Witness ==
  /\ exitPath = "timeout"
  /\ Returned
  /\ plannerCalls >= 1
  /\ stepsLen >= 1
  /\ progress.status = "timeout"

\* --------------------------------------------------------------------- C12
\* C12: when the planner call throws the task is aborted at once: the progress
\* record is finalized as failed, the result has success = false, the fault
\* message as error and the step records made so far, and no planner call and
\* no dispatch follow.
C12_PlannerFaultAborts ==
  /\ [][(pc = "planner" /\ pc' \notin {"planner", "blocks"}) =>
          /\ pc' = "finalWrite"
          /\ progress'.status = "failed"
          /\ ~result'[1].success
          /\ \E msg \in FaultMsgs : result'[1].error = <<msg>>
          /\ progress'.final_result[1].error = result'[1].error
          /\ result'[1].steps = stepsLen
          /\ plannerCalls' = plannerCalls
          /\ stepsLen' = stepsLen]_vars
  /\ [][(exitPath = "fault") => (LoopFrozen /\ progress' = progress)]_vars

\* the second planner call threw after a directive had been dispatched
C12_Witness ==
  /\ exitPath = "fault"
  /\ Returned
  /\ plannerCalls = 2
  /\ result[1].steps >= 1
  /\ progress.status = "failed"

LastActions(n) ==
  LET len == IF n < 5 THEN n ELSE 5
  IN [i \in 1..len |-> n - len + i]

\* C16: steps_summary of the progress record never has more than 5 entries and
\* holds the summaries of the most recent (up to 5) meaningful actions in
\* dispatch order; a meaningful action recorded on a full list removes the
\* oldest entry and lands at the end. The record stored under
\* progress/<taskId> holds such a list of an earlier or the present moment.
C16_RollingSummary ==
  /\ [](/\ Len(progress.steps_summary) <= 5
        /\ progress.steps_summary = LastActions(meaningfulSteps)
        /\ (blob # <<>>) =>
             /\ Len(blob[1].steps_summary) <= 5
             /\ \E k \in 0..meaningfulSteps :
                  blob[1].steps_summary = LastActions(k))
  /\ [][(meaningfulSteps' = meaningfulSteps + 1 /\ Len(progress.steps_summary) = 5) =>
         progress'.steps_summary =
           Append(Tail(progress.steps_summary), meaningfulSteps')]_vars

\* the sixth meaningful action was recorded and stored: the first entry is gone
C16_Witness ==
  /\ meaningfulSteps = 6
  /\ progress.steps_summary = <<2, 3, 4, 5, 6>>
  /\ blob # <<>>
  /\ blob[1].steps_summary = <<2, 3, 4, 5, 6>>

\* --------------------------------------------------------------------- C17
\* C17: a progress write whose attempts all fail raises nothing and changes
\* nothing of the task: status, counters, step records and held keys are as
\* before, and the main flow goes on where it goes on after a successful
\* write (the next block after a step write, the return after finalizeTask).
C17_FailedWriteIgnored ==
  /\ [][MainWriting =>
          /\ pc = "stepWrite" => pc' \in {"stepWrite", "blocks"}
          /\ pc = "finalWrite" => pc' \in {"finalWrite", "returned"}
          /\ UNCHANGED <<progress, meaningfulSteps, totalIterations, plannerCalls,
                         stepsLen, heldKeys, keyUpCalls, pending, dispatched, result,
                         exitPath, caught, rejected>>]_vars
  /\ [][(MainWriting /\ attempt = DefaultRetries /\ blob' = blob /\ pc' # pc) =>
          /\ pc = "stepWrite" => pc' = "blocks"
          /\ pc = "finalWrite" => pc' = "returned"]_vars
  /\ [](MainWriting => attempt <= DefaultRetries)

\* the write of step 1 failed on every attempt (the store still holds step 0
\* and no heartbeat ever fired) and the for loop went on to the next block
C17_Witness ==
  /\ pc = "blocks"
  /\ progress.status = "running"
  /\ progress.current_step = 1
  /\ blob[1].current_step = 0
  /\ hbFired = 0
  /\ dispatched # <<>>
  /\ stepsLen = 2

\* --------------------------------------------------------------------- C18
\* C18: when the run ends in the catch block of executeTaskInBackground, the
\* wrapper has stored a failed progress record under progress/<taskId> and a
\* Task Result under tasks/<taskId>.
C18_FaultStoresBoth ==
  (pc = "done" /\ caught # <<>> /\ ~rejected) =>
    /\ blob # <<>>
    /\ blob[1].status = "failed"
    /\ taskBlob # <<>>

\* --------------------------------------------------------------------- C19
\* C19: the promise of executeTaskInBackground never rejects, whatever the
\* blob writes of the wrapper do.
C19_NeverRejects == ~rejected

\* --------------------------------------------------------------------- C20
\* C20: a record with a non-running status is stored under progress/<taskId>
\* only by the write finalizeTask awaits, and at most once per task.
C20_OnlyFinalizeWritesTerminal ==
  /\ [][(blob' # blob /\ blob'[1].status \in Terminal) => pc = "finalWrite"]_vars
  /\ [][(blob # <<>> /\ blob[1].status \in Terminal /\ blob' # blob) =>
          blob'[1].status \notin Terminal]_vars

\* --------------------------------------------------------------------- C21
\* C21: run_task schedules the background execution and returns its response
\* only after the updateProgress of initializeProgress has returned (stored, or
\* every attempt failed); until then nothing of executeTask has run. The
\* response carries the task id, status "running" and the URL of the stored
\* record if there is one; it is returned in the step that schedules the
\* execution, while the task is still running, and never changes afterwards.
C21_InitialWriteBeforeStart ==
  /\ []((response = <<>>) =>
         /\ pc \in {"initWrite", "start"}
         /\ plannerCalls = 0 /\ totalIterations = 0 /\ stepsLen = 0
         /\ progress = InitialProgress
         /\ blob \in {<<>>, <<InitialProgress>>}
         /\ result = <<>>)
  /\ [][(response' # response) =>
         /\ response = <<>>
         /\ pc # "initWrite"
         /\ attempt = 0
         /\ blob' = blob
         /\ response' = <<[task_id |-> "task", status |-> "running",
                           progress_url |-> (blob # <<>>)]>>
         /\ pc' \in {"loop", "firstWrite"}
         /\ progress'.status = "running"
         /\ result' = <<>>]_vars

\* the response was returned after an initial write that failed three times,
\* and the task it announced is waiting for its planner
C21_Witness ==
  /\ response # <<>>
  /\ ~response[1].progress_url
  /\ pc = "planner"
  /\ progress.status = "running"

\* --------------------------------------------------------------------- C22
\* what Number(raw) makes a usable budget: a finite number above zero
ValidBudget(raw) == IsFinite(Number(raw)) /\ Number(raw).v > 0

\* C22: whatever max_steps and timeout_seconds the caller sends, run_task goes
\* on to compute its budgets (it has no error return for them), each budget is
\* positive and at most its maximum, a valid value at or below the maximum is
\* used unchanged, a valid value above it becomes the maximum, and an invalid
\* one becomes the default.
C22_BudgetsClamped ==
  /\ (pc = "args") => ENABLED ClampBudgets
  /\ (pc = "host") =>
       LET rawSteps == args[1].max_steps
           rawTimeout == args[1].timeout_seconds
       IN /\ response = <<>>
          /\ maxSteps > 0 /\ maxSteps <= 100
          /\ timeoutSeconds > 0 /\ timeoutSeconds <= 750
          /\ (ValidBudget(rawSteps) /\ Number(rawSteps).v <= 100) =>
               maxSteps = Number(rawSteps).v
          /\ (ValidBudget(rawSteps) /\ Number(rawSteps).v > 100) => maxSteps = 100
          /\ ~ValidBudget(rawSteps) => maxSteps = 100
          /\ (ValidBudget(rawTimeout) /\ Number(rawTimeout).v <= 750) =>
               timeoutSeconds = Number(rawTimeout).v
          /\ (ValidBudget(rawTimeout) /\ Number(rawTimeout).v > 750) =>
               timeoutSeconds = 750
          /\ ~ValidBudget(rawTimeout) => timeoutSeconds = 750

\* max_steps 751 was capped and an absent timeout_seconds got the default
C22_Witness ==
  /\ pc = "host"
  /\ args[1].max_steps.t = "number"
  /\ args[1].max_steps.n = Finite(751)
  /\ args[1].timeout_seconds.t = "undefined"
  /\ maxSteps = 100
  /\ timeoutSeconds = 750

\* --------------------------------------------------------------------- C23
\* C23: whichever return statement executeTask takes, steps_taken of the result
\* and total_steps of the finalized progress record are the number of
\* meaningful actions counted, not the number of step records.
C23_StepsTakenIsMeaningful ==
  (result # <<>>) =>
    /\ result[1].steps_taken = meaningfulSteps
    /\ progress.final_result[1].total_steps = meaningfulSteps

\* --------------------------------------------------------------------- C24
\* C24: every dispatched directive (successful, failed, throwing or of an
\* unknown action) appends exactly one step record, whose sequence number is
\* its position in the list, and the list never shrinks.
C24_OneRecordPerDirective ==
  /\ [][(Reaches /\ block'[1].type = "tool_use") =>
         /\ stepsLen' = stepsLen + 1
         /\ dispatched'[1].step = stepsLen']_vars
  /\ [][stepsLen' = stepsLen \/ (Reaches /\ block'[1].type = "tool_use")]_vars

\* --------------------------------------------------------------------- C25
\* C25: a task that ends through the completion marker has a result with
\* success = true, the trimmed text after the marker as summary ("Opened app"
\* is the only completion text of the model) and steps_taken equal to the
\* number of meaningful directives dispatched before the marker; when the
\* first response is the marker alone, steps_taken is 0 and nothing was
\* dispatched.
C25_CompletionResult ==
  (exitPath = "complete" /\ result # <<>>) =>
    /\ result[1].success
    /\ result[1].summary = <<"Opened app">>
    /\ result[1].steps_taken = attempted[1]
    /\ (plannerCalls = 1 /\ toolResults = 0) =>
         (result[1].steps_taken = 0 /\ stepsLen = 0 /\ keyUpCalls = <<>>)

\* --------------------------------------------------------------------- C26
\* C26: for integers x, y, width and height validateCoordinates returns valid
\* exactly when 0 <= x < width and 0 <= y < height; otherwise its error names
\* the coordinate and the bounds; the call changes nothing but its result.
C26_ValidIffInside ==
  /\ []((pc = "validated") =>
         LET a == callArgs[1]
             inside == 0 <= a.x /\ a.x < a.width /\ 0 <= a.y /\ a.y < a.height
         IN /\ callResult[1].valid <=> inside
            /\ ~inside =>
                 callResult[1].error =
                   <<"Coordinates (", ToString(a.x), ", ", ToString(a.y),
                     ") are outside display bounds (", ToString(a.width), "x",
                     ToString(a.height), ")">>)
  /\ [][(pc = "validate") =>
         UNCHANGED <<callArgs, progress, blob, taskBlob, heldKeys, stepsLen,
                     meaningfulSteps, result>>]_vars

\* x equal to the width was refused
C26_Witness ==
  /\ pc = "validated"
  /\ callArgs[1] = [x |-> 3, y |-> 0, width |-> 3, height |-> 1]
  /\ ~callResult[1].valid

\* --------------------------------------------------------------------- C27
\* C27: a zoom directive without coordinate does not fail for the missing
\* coordinate: it asks for the region around the centre of the screen, and it
\* succeeds when the sandbox delivers an image.
C27_ZoomDefaultsToCentre ==
  (pc = "zoomed" /\ callArgs[1].coordinate = <<>>) =>
    /\ callResult[1].error # RequiresCoordinateMsg
    /\ callResult[1].region # <<>>
    /\ callResult[1].success \/ callResult[1].thrown
         \/ callResult[1].error = RemoteError

\* --------------------------------------------------------------------- C28
\* the loop leaves by its condition with the action budget used up
DeclaresExhausted ==
  exitPath = "none" /\ exitPath' = "exhausted" /\ meaningfulSteps >= maxSteps

\* C28 as stated: the task is declared exhausted only on a response that
\* follows the one whose action used up the budget, so by then the planner
\* has been called at least twice (with max_steps = 1, the case of the
\* scenario: once for the click, once more after it).
C28_PlannerConsultedOnceMore ==
  [][DeclaresExhausted => plannerCalls >= 2]_vars

\* C28, amended: after the meaningful action that brings current_step to
\* max_steps the planner is not consulted again. The remaining blocks of the
\* response in hand are gone through and, at the top of the loop, the only
\* step left is to declare the task exhausted; a completion marker ends the
\* task as completed after that action only when it stands later in the same
\* response.
C28_ExhaustedWithoutFurtherCall ==
  /\ []((pc = "loop" /\ meaningfulSteps >= maxSteps) =>
          /\ ~ENABLED CallPlanner
          /\ ~ENABLED TimeoutExit
          /\ ENABLED LoopExit)
  /\ [][DeclaresExhausted =>
          /\ pc = "loop"
          /\ pending = 0
          /\ plannerCalls' = plannerCalls
          /\ result'[1].error = ReachedLimitMsg(maxSteps, meaningfulSteps)]_vars
  /\ [][(exitPath = "none" /\ exitPath' = "complete" /\ meaningfulSteps >= maxSteps) =>
          /\ toolResults >= 1
          /\ pc = "blocks"
          /\ plannerCalls' = plannerCalls]_vars

\* max_steps = 1: the first response carried a click and then a text with
\* the completion marker, and the task ended as completed after one call
C28_Witness ==
  /\ maxSteps = 1
  /\ Returned
  /\ exitPath = "complete"
  /\ plannerCalls = 1
  /\ meaningfulSteps = 1
  /\ toolResults = 1

\* --------------------------------------------------------------------- C29
\* a running record as the main loop has it at some instant: its rolling
\* summary is the one of its current_step
IsSnapshot(rec) == rec.steps_summary = LastActions(rec.current_step)

\* this step is a heartbeat's put storing its payload
HeartbeatStores == hb' # hb /\ blob' # blob

\* C29: every record a heartbeat stores is the canonical progress record as
\* it stood at one instant (updated_at and elapsed_ms apart), also when the
\* attempt that stores it was serialized after the main loop went on.
C29_HeartbeatStoresSnapshot ==
  [][HeartbeatStores =>
       /\ IsSnapshot(blob'[1])
       /\ blob'[1].status = "running"]_vars

\* --------------------------------------------------------------------- C30
\* this step dispatches a meaningful action whose handler returns
ReturnsCounted ==
  /\ Handles
  /\ CountsAsStep(dispatched'[1].action)
  /\ dispatched'[1].handled
  /\ ~dispatched'[1].is_error

\* C30: after a meaningful action whose handler returned, the loop stands in
\* the progress write of that step; while it stands there no directive is
\* dispatched, no block is taken and the planner is not called; it leaves the
\* write only when an attempt has stored the record of that step or when the
\* last retry has failed, and goes on with the rest of the response.
C30_StepWriteAwaited ==
  /\ [][ReturnsCounted =>
          /\ pc' = "stepWrite"
          /\ attempt' = 0
          /\ progress'.current_step = meaningfulSteps']_vars
  /\ [][(pc = "stepWrite") =>
          /\ stepsLen' = stepsLen
          /\ pending' = pending
          /\ plannerCalls' = plannerCalls
          /\ progress' = progress]_vars
  /\ [][(pc = "stepWrite" /\ pc' # "stepWrite") =>
          /\ pc' = "blocks"
          /\ blob' = <<progress>> \/ attempt = DefaultRetries]_vars

\* the write of the first action is at its last retry while the second
\* directive of the response waits
C30_Witness ==
  /\ pc = "stepWrite"
  /\ attempt = DefaultRetries
  /\ pending = 1
  /\ progress.current_step = 1
  /\ blob # <<progress>>

\* --------------------------------------------------------------------- C31
\* C31: dispatching screenshot, zoom or wait leaves the held-key set as it is
\* and issues no key-up; dispatching hold_key issues no key-up and removes no
\* key from the set. So a key held before a sequence of these actions is
\* still held after it.
C31_ExemptActionsKeepKeys ==
  /\ [][(AtRegistered /\ block'[1].action \in {"screenshot", "zoom", "wait"}) =>
          /\ heldKeys' = heldKeys
          /\ keyUpCalls' = <<>>]_vars
  /\ [][(AtRegistered /\ block'[1].action = "hold_key") =>
          /\ heldKeys \subseteq heldKeys'
          /\ keyUpCalls' = <<>>]_vars

\* shift was held by the first directive of the response and is still held
\* after the wait that followed it
C31_Witness ==
  /\ pc = "blocks"
  /\ toolResults = 2
  /\ dispatched # <<>>
  /\ dispatched[1].action = "wait"
  /\ dispatched[1].success
  /\ heldKeys = {"shift"}
  /\ keyUpCalls = <<>>

\* --------------------------------------------------------------------- C32
\* this step runs the auto-release loop
Releases == heldKeys # {} /\ heldKeys' = {} /\ Handles

\* C32: whatever the key-up calls of an auto-release do (return success,
\* return a failure, throw), one key-up is made for every held key, the set
\* is empty afterwards, the step record is the one of a handler that
\* returned (no error result for the planner), the action is counted and the
\* task goes on to the write of the step.
C32_ReleaseFailureIgnored ==
  [][Releases =>
       /\ \A k \in heldKeys :
            Cardinality({i \in DOMAIN keyUpCalls' : keyUpCalls'[i].key = k}) = 1
       /\ Len(keyUpCalls') = Cardinality(heldKeys)
       /\ dispatched'[1].handled
       /\ ~dispatched'[1].is_error
       /\ dispatched'[1].step = stepsLen + 1
       /\ stepsLen' = stepsLen + 1
       /\ meaningfulSteps' = meaningfulSteps + 1
       /\ progress'.current_step = meaningfulSteps + 1
       /\ progress'.status = "running"
       /\ pc' = "stepWrite"
       /\ result' = <<>>]_vars

\* a click succeeded with ctrl and shift held; the first key-up threw, the
\* second was made all the same, and the click is counted as the third action
C32_Witness ==
  /\ Len(keyUpCalls) = 2
  /\ keyUpCalls[1].outcome = "throw"
  /\ keyUpCalls[2].outcome = "fail"
  /\ heldKeys = {}
  /\ dispatched # <<>>
  /\ dispatched[1].action = "left_click"
  /\ dispatched[1].success
  /\ meaningfulSteps = 3
  /\ pc = "stepWrite"

\* --------------------------------------------------------------------- C33
\* this step dispatches a directive whose handler throws
HandlerThrows ==
  /\ Handles
  /\ dispatched'[1].handled
  /\ dispatched'[1].is_error
  /\ dispatched'[1].error # <<NotAFunctionMsg>>

C34_NoKeyHeldAtEnd ==
  result # <<>> => heldKeys = {}

\* --------------------------------------------------------------------- C35
\* C35: executeTask finalizes once. The step that sets the result is the one
\* that finalizes the running record; afterwards neither the record nor the
\* result changes; and the finalized record agrees with the result: status
\* completed exactly when success, and final_result's success, summary,
\* total_steps and error are the result's success, summary, steps_taken and
\* error.
C35_FinalizedOnceAndAgrees ==
  /\ [][(result = <<>> /\ result' # <<>>) =>
          /\ progress.status = "running"
          /\ progress.final_result = <<>>
          /\ progress'.status \in Terminal
          /\ pc' = "finalWrite"]_vars
  /\ [][(result # <<>>) => (progress' = progress /\ result' = result)]_vars
  /\ []((result = <<>>) <=> (progress.status = "running"))
  /\ [](result # <<>> =>
          LET r == result[1]
              f == progress.final_result[1]
          IN /\ (progress.status = "completed") <=> r.success
             /\ f.success = r.success
             /\ f.summary = r.summary
             /\ f.total_steps = r.steps_taken
             /\ f.error = r.error
             /\ progress.current_step = r.steps_taken)

\* the task timed out after one unknown directive: the record and the result
\* both report one step, though no meaningful action was counted
C35_Witness ==
  /\ Returned
  /\ exitPath = "timeout"
  /\ progress.status = "timeout"
  /\ meaningfulSteps = 0
  /\ result[1].steps_taken = 1
  /\ progress.final_result[1].total_steps = 1

\* C36: when a remote call a handler made has reported success = false, the
\* result of the handler has success = false
C36_RemoteFailureReported ==
  (pc = "handled" /\ \E i \in 1..Len(remoteCalls) : remoteCalls[i].outcome = "fail")
    => ~callResult[1].success

\* c lies outside the display
OutsideDisplay(c) ==
  c[1] < 0 \/ c[1] >= DisplayWidth \/ c[2] < 0 \/ c[2] >= DisplayHeight

\* a required field of the directive is missing, or a coordinate of it lies
\* outside the display
Unacceptable(input) ==
  \/ /\ input.action \in {"left_click", "left_click_drag"}
     /\ input.coordinate = <<>> \/ OutsideDisplay(input.coordinate)
  \/ /\ input.action = "left_click_drag"
     /\ input.start_coordinate # <<>>
     /\ OutsideDisplay(input.start_coordinate)
  \/ input.action \in {"type", "key"} /\ input.text = <<>>
  \/ input.action = "hold_key" /\ input.key = "" /\ input.text = <<>>

\* C37: a handler whose required field is missing, or whose coordinate (for a
\* drag its start or its end) lies outside the display, returns a result with
\* success = false and an error, throws nothing and makes no remote call
C37_BadInputRefused ==
  Unacceptable(callArgs[1]) =>
    /\ remoteCalls = <<>>
    /\ pc # "remote"
    /\ pc = "handled" =>
         /\ ~callResult[1].success
         /\ callResult[1].error # <<>>
         /\ ~callResult[1].thrown

\* a drag from a point on the display to a point outside was refused
C37_Witness ==
  /\ pc = "handled"
  /\ callArgs[1].action = "left_click_drag"
  /\ callArgs[1].start_coordinate = <<5, 5>>
  /\ callArgs[1].coordinate = <<50, 50>>
  /\ ~callResult[1].success
  /\ remoteCalls = <<>>

\* the capture calls handleScreenshot or handleZoom has made, by command
CapturesOf(command) == SelectSeq(remoteCalls, LAMBDA c : c.command = command)

\* the call log is a run of region captures followed by full-screen captures
RegionThenFull ==
  \A i, j \in 1..Len(remoteCalls) :
    (remoteCalls[i].command = "screenshot" /\ i < j)
      => remoteCalls[j].command = "screenshot"

\* C38: handleScreenshot makes at most two screenshot calls, the second only
\* after a first one without image; handleZoom makes at most two region
\* captures, the second only after a first one without image, and then at most
\* one full-screen capture, that one only after two region captures without
\* image; each handler reports success exactly when the last capture it made
\* returned an image
C38_CaptureRetries ==
  LET region == CapturesOf("screenshotRegion")
      full == CapturesOf("screenshot")
  IN /\ pc \in {"screenshot", "screenshotted"} =>
          /\ Len(region) = 0
          /\ Len(full) <= 2
          /\ Len(full) = 2 => full[1].outcome \in {"failed", "noImage"}
     /\ pc \in {"zoom", "zoomRegion", "zoomFull", "zoomed"} =>
          /\ Len(region) <= 2
          /\ Len(region) = 2 => region[1].outcome \in {"failed", "noImage"}
          /\ Len(full) <= 1
          /\ Len(full) = 1 =>
               /\ Len(region) = 2
               /\ \A i \in 1..2 : region[i].outcome \in {"failed", "noImage"}
          /\ RegionThenFull
     /\ pc \in {"screenshotted", "zoomed"} =>
          (callResult[1].success <=>
             /\ remoteCalls # <<>>
             /\ remoteCalls[Len(remoteCalls)].outcome = "image")

\* handleZoom answered with the full-screen image after two region captures
\* that returned nothing
C38_Witness ==
  /\ pc = "zoomed"
  /\ callResult[1].success
  /\ Len(remoteCalls) = 3
  /\ remoteCalls[1] = RemoteCall("screenshotRegion", "failed")
  /\ remoteCalls[2] = RemoteCall("screenshotRegion", "noImage")
  /\ remoteCalls[3] = RemoteCall("screenshot", "image")

\* the put attempts and the waits updateProgress has made
Puts == SelectSeq(remoteCalls, LAMBDA c : c.command = "put")
Sleeps == SelectSeq(remoteCalls, LAMBDA c : c.command = "sleep")

====
